---- MODULE Spec2Model ----
(***************************************************************************)
(* Model of the repository health engine (GitHubFunctions, and the         *)
(* functions registered in daemo-integrated-organizer.js) and of the       *)
(* SF 311 case analytics (SF311Functions).                                 *)
(*                                                                         *)
(* Optional values (null / undefined in the source) are sequences of       *)
(* length at most one: <<>> is null, <<v>> is the value v.                 *)
(* Repository timestamps are counted in months, case timestamps in ticks   *)
(* of 1/TicksPerDay day.  Fractional results that the source rounds with   *)
(* toFixed(2) are integers counting hundredths.                            *)
(***************************************************************************)
EXTENDS Integers, Sequences, FiniteSets, TLC

VARIABLES
    op,               \* the operation that was invoked
    pc,               \* position of the invoked operation
    input,            \* the argument of the invoked operation
    repos,            \* the repositories GitHub holds for the user
    i,                \* index of the repository / row being processed
    issues,           \* `issues` (resp. `results`, `repoDetails`) of the operation
    strengths,        \* `strengths` of getRepositoryHealth
    recommendations,  \* `recommendations` of getRepositoryHealth
    healthScore,      \* `healthScore` of getRepositoryHealth
    dataset,          \* the cases of the 311 dataset the query ranges over
    rows,             \* the rows the SoQL query returns
    resubmissions,    \* `resubmissions` of analyzeResubmissions
    examples,         \* `examples` of analyzeResubmissions
    result,           \* what the operation returned or threw
    calls,            \* the requests sent to GitHub so far, with their outcomes
    fixed,            \* `fixed` (resp. `results`) of autoFixAllIssues
    actions,          \* `actions` of the current iteration of autoFixAllIssues
    lastResult,       \* what the preceding call of the operation returned
    tasks             \* the calls of addLicenseToRepo / addReadmeToRepo in progress

vars == <<op, pc, input, repos, i, issues, strengths, recommendations,
          healthScore, dataset, rows, resubmissions, examples, result, calls, fixed,
          actions, lastResult, tasks>>

auxVars == <<fixed, actions, lastResult, tasks>>
githubVars == <<repos, issues, strengths, recommendations, healthScore, calls,
                auxVars>>
sf311Vars == <<dataset, rows, resubmissions, examples>>

----------------------------------------------------------------------------
(* Bounds of the model *)

\* the current time, in months
Now == 24
\* longest repository list of the list operations
MaxRepos == 2
\* longest repository list of getPortfolioStatistics
MaxPortfolio == 3
\* most rows of analyzeCycleTimes
MaxCycleRows == 4
\* most rows of analyzeResubmissions over the full row domain
MaxRows == 3
\* most rows of analyzeResubmissions over the narrow row domain
MaxLongRows == 7
\* longest repository list of the batch operations
MaxFixRepos == 2
\* most cases of the filtered dataset
MaxFilterRows == 2

----------------------------------------------------------------------------
(* Values *)

Null == <<>>

Some(v) == <<v>>

\* JavaScript truthiness of an optional string: null and "" are falsy
Truthy(o) == o # Null /\ o[1] # ""

NoResult == [status |-> "none"]

Min(a, b) == IF a < b THEN a ELSE b

Max(a, b) == IF a > b THEN a ELSE b

RECURSIVE SumSeq(_)
SumSeq(s) == IF s = <<>> THEN 0 ELSE Head(s) + SumSeq(Tail(s))

\* all sequences over S of length at most n
SeqUpTo(S, n) == UNION {[1..k -> S] : k \in 0..n}

----------------------------------------------------------------------------
(* Strings *)

UpperToLower ==
    [c \in {"A","B","C","D","E","F","G","H","I","J","K","L","M","N","O","P",
            "Q","R","S","T","U","V","W","X","Y","Z"} |->
       CASE c = "A" -> "a" [] c = "B" -> "b" [] c = "C" -> "c" [] c = "D" -> "d"
         [] c = "E" -> "e" [] c = "F" -> "f" [] c = "G" -> "g" [] c = "H" -> "h"
         [] c = "I" -> "i" [] c = "J" -> "j" [] c = "K" -> "k" [] c = "L" -> "l"
         [] c = "M" -> "m" [] c = "N" -> "n" [] c = "O" -> "o" [] c = "P" -> "p"
         [] c = "Q" -> "q" [] c = "R" -> "r" [] c = "S" -> "s" [] c = "T" -> "t"
         [] c = "U" -> "u" [] c = "V" -> "v" [] c = "W" -> "w" [] c = "X" -> "x"
         [] c = "Y" -> "y" [] c = "Z" -> "z"]

\* String.prototype.toLowerCase
RECURSIVE ToLowerCase(_)
ToLowerCase(s) ==
    IF Len(s) = 0 THEN ""
    ELSE LET c == SubSeq(s, 1, 1)
         IN  (IF c \in DOMAIN UpperToLower THEN UpperToLower[c] ELSE c)
             \o ToLowerCase(SubSeq(s, 2, Len(s)))

\* String.prototype.includes
Includes(s, k) ==
    \E j \in 1..(Len(s) - Len(k) + 1) : SubSeq(s, j, j + Len(k) - 1) = k

----------------------------------------------------------------------------
(* Repository rules shared by the GitHub operations *)

\* Date.prototype.setMonth(getMonth() - n) on the current time
MonthsAgo(n) == Now - n

\* !repo.license
MissingLicense(repo) == repo.license = Null

\* !repo.description || repo.description.length < 10
WeakDescription(repo) ==
    \/ ~Truthy(repo.description)
    \/ Len(repo.description[1]) < 10

\* a catch branch that handles only "not found" and lets other errors pass
ReadmeProbeFails_NotFoundOnly(repo) == repo.readme = "notfound"

\* the catch branch of octokit.repos.getContent({path: 'README.md'})
ReadmeProbeFails(repo) == repo.readme # "ok"

\* the comparison of the staleness rule turned around
StaleSixMonths_Inverted(repo) ==
    /\ repo.updated_at # Null
    /\ repo.updated_at[1] > MonthsAgo(6)

\* repo.updated_at && new Date(repo.updated_at) < sixMonthsAgo
StaleSixMonths(repo) ==
    /\ repo.updated_at # Null
    /\ repo.updated_at[1] < MonthsAgo(6)

\* repo.updated_at && new Date(repo.updated_at) > oneMonthAgo
RecentlyUpdated(repo) ==
    /\ repo.updated_at # Null
    /\ repo.updated_at[1] > MonthsAgo(1)

\* new Date(repo.updated_at) < sixMonthsAgo; new Date(null) is the epoch
StaleSixMonthsJS(repo) ==
    (IF repo.updated_at = Null THEN 0 ELSE repo.updated_at[1]) < MonthsAgo(6)

practiceKeywords ==
    <<"practice", "test", "learning", "tutorial", "example", "demo", "temp">>

practiceKeywordsJS == practiceKeywords \o <<"experiment">>

\* practiceKeywords.some(keyword => name includes keyword || description includes keyword)
IsPractice(repo, keywords) ==
    \E k \in 1..Len(keywords) :
        \/ Includes(ToLowerCase(repo.name), keywords[k])
        \/ /\ Truthy(repo.description)
           /\ Includes(ToLowerCase(repo.description[1]), keywords[k])

----------------------------------------------------------------------------
(* Requests to GitHub *)

Request(name, k, path, ok) ==
    [request |-> name, repo |-> k, path |-> path, ok |-> ok]

\* octokit.repos.listForAuthenticatedUser
ListRequest(ok) == Request("repos.listForAuthenticatedUser", 0, "", ok)

\* octokit.repos.get for the repository input.repo
GetRequest(k, ok) == Request("repos.get", k, "", ok)

\* octokit.repos.getContent with path README.md for the k-th repository
ReadmeProbe(k) ==
    Request("repos.getContent", k, "README.md", ~ReadmeProbeFails(repos[k]))

\* the probes of the repositories k, k + 1, ..., in that order
RECURSIVE ReadmeProbesFrom(_)
ReadmeProbesFrom(k) ==
    IF k > Len(repos) THEN <<>> ELSE <<ReadmeProbe(k)>> \o ReadmeProbesFrom(k + 1)

----------------------------------------------------------------------------
(* GitHubFunctions.getRepositoryHealth (TypeScript) *)

LicensePenalty == 15
DescriptionPenalty == 10
ReadmePenalty == 20
ActivityPenalty == 10

\* octokit.repos.get: input.repo = 0 names a repository that does not exist,
\* and any request can fail upstream
GRH_Get ==
    /\ op = "getRepositoryHealth" /\ pc = "start"
    /\ \E ok \in BOOLEAN :
         /\ calls' = Append(calls, GetRequest(input.repo, ok /\ input.repo \in 1..Len(repos)))
         /\ IF ok /\ input.repo \in 1..Len(repos)
            THEN /\ i' = input.repo
                 /\ issues' = <<>>
                 /\ strengths' = <<>>
                 /\ healthScore' = 100
                 /\ pc' = "license"
                 /\ UNCHANGED result
            ELSE /\ result' = [status |-> "error", message |-> "Failed to analyze repository"]
                 /\ pc' = "done"
                 /\ UNCHANGED <<i, issues, strengths, healthScore>>
    /\ UNCHANGED <<op, input, repos, recommendations, auxVars, sf311Vars>>

GRH_CheckLicense ==
    /\ op = "getRepositoryHealth" /\ pc = "license"
    /\ IF MissingLicense(repos[i])
       THEN /\ issues' = Append(issues, "Missing LICENSE file")
            /\ healthScore' = healthScore - LicensePenalty
            /\ UNCHANGED strengths
       ELSE /\ strengths' = Append(strengths, "Has license")
            /\ UNCHANGED <<issues, healthScore>>
    /\ pc' = "description"
    /\ UNCHANGED calls
    /\ UNCHANGED <<op, input, repos, i, recommendations, auxVars, sf311Vars, result>>

GRH_CheckDescription ==
    /\ op = "getRepositoryHealth" /\ pc = "description"
    /\ IF WeakDescription(repos[i])
       THEN /\ issues' = Append(issues, "Weak or missing description")
            /\ healthScore' = healthScore - DescriptionPenalty
            /\ UNCHANGED strengths
       ELSE /\ strengths' = Append(strengths, "Has detailed description")
            /\ UNCHANGED <<issues, healthScore>>
    /\ pc' = "readme"
    /\ UNCHANGED calls
    /\ UNCHANGED <<op, input, repos, i, recommendations, auxVars, sf311Vars, result>>

\* the failed probe recorded without its penalty
GRH_CheckReadme_NoPenalty ==
    /\ op = "getRepositoryHealth" /\ pc = "readme"
    /\ IF ReadmeProbeFails(repos[i])
       THEN /\ issues' = Append(issues, "Missing README.md")
            /\ UNCHANGED <<strengths, healthScore>>
       ELSE /\ strengths' = Append(strengths, "Has README.md")
            /\ UNCHANGED <<issues, healthScore>>
    /\ pc' = "activity"
    /\ calls' = Append(calls, ReadmeProbe(i))
    /\ UNCHANGED <<op, input, repos, i, recommendations, auxVars, sf311Vars, result>>

GRH_CheckReadme ==
    /\ op = "getRepositoryHealth" /\ pc = "readme"
    /\ IF ReadmeProbeFails(repos[i])
       THEN /\ issues' = Append(issues, "Missing README.md")
            /\ healthScore' = healthScore - ReadmePenalty
            /\ UNCHANGED strengths
       ELSE /\ strengths' = Append(strengths, "Has README.md")
            /\ UNCHANGED <<issues, healthScore>>
    /\ pc' = "activity"
    /\ calls' = Append(calls, ReadmeProbe(i))
    /\ UNCHANGED <<op, input, repos, i, recommendations, auxVars, sf311Vars, result>>

GRH_CheckActivity ==
    /\ op = "getRepositoryHealth" /\ pc = "activity"
    /\ IF RecentlyUpdated(repos[i])
       THEN /\ strengths' = Append(strengths, "Recently updated")
            /\ UNCHANGED <<issues, healthScore>>
       ELSE /\ issues' = Append(issues, "Not recently updated")
            /\ healthScore' = healthScore - ActivityPenalty
            /\ UNCHANGED strengths
    /\ pc' = "stars"
    /\ UNCHANGED calls
    /\ UNCHANGED <<op, input, repos, i, recommendations, auxVars, sf311Vars, result>>

\* the practice heuristic applied to the score and the issues as well
GRH_CheckStars_WithPractice ==
    /\ op = "getRepositoryHealth" /\ pc = "stars"
    /\ strengths' = IF repos[i].stargazers_count > 10
                    THEN Append(strengths, "stars") ELSE strengths
    /\ IF IsPractice(repos[i], practiceKeywords) /\ ~repos[i].private
       THEN /\ issues' = Append(issues, "Practice/demo code should be private")
            /\ healthScore' = healthScore - ActivityPenalty
       ELSE UNCHANGED <<issues, healthScore>>
    /\ pc' = "recommend"
    /\ UNCHANGED calls
    /\ UNCHANGED <<op, input, repos, i, recommendations, auxVars, sf311Vars, result>>

GRH_CheckStars ==
    /\ op = "getRepositoryHealth" /\ pc = "stars"
    /\ strengths' = IF repos[i].stargazers_count > 10
                    THEN Append(strengths, "stars") ELSE strengths
    /\ pc' = "recommend"
    /\ UNCHANGED calls
    /\ UNCHANGED <<op, input, repos, i, issues, recommendations, healthScore,
                   auxVars, sf311Vars, result>>

\* issues.includes(s)
IssuesInclude(s) == \E k \in 1..Len(issues) : issues[k] = s

\* a recommendation for the activity issue as well
GRH_Recommend_WithActivity ==
    /\ op = "getRepositoryHealth" /\ pc = "recommend"
    /\ recommendations' =
         (IF IssuesInclude("Missing README.md")
          THEN <<[priority |-> "high", action |-> "Add a comprehensive README"]>>
          ELSE <<>>)
         \o (IF IssuesInclude("Missing LICENSE file")
             THEN <<[priority |-> "high", action |-> "Add an appropriate LICENSE file"]>>
             ELSE <<>>)
         \o (IF IssuesInclude("Weak or missing description")
             THEN <<[priority |-> "medium", action |-> "Add a clear, concise description"]>>
             ELSE <<>>)
         \o (IF IssuesInclude("Not recently updated")
             THEN <<[priority |-> "low", action |-> "Push a commit"]>>
             ELSE <<>>)
    /\ pc' = "return"
    /\ UNCHANGED calls
    /\ UNCHANGED <<op, input, repos, i, issues, strengths, healthScore,
                   auxVars, sf311Vars, result>>

GRH_Recommend ==
    /\ op = "getRepositoryHealth" /\ pc = "recommend"
    /\ recommendations' =
         (IF IssuesInclude("Missing README.md")
          THEN <<[priority |-> "high", action |-> "Add a comprehensive README"]>>
          ELSE <<>>)
         \o (IF IssuesInclude("Missing LICENSE file")
             THEN <<[priority |-> "high", action |-> "Add an appropriate LICENSE file"]>>
             ELSE <<>>)
         \o (IF IssuesInclude("Weak or missing description")
             THEN <<[priority |-> "medium", action |-> "Add a clear, concise description"]>>
             ELSE <<>>)
    /\ pc' = "return"
    /\ UNCHANGED calls
    /\ UNCHANGED <<op, input, repos, i, issues, strengths, healthScore,
                   auxVars, sf311Vars, result>>

\* Math.max(0, Math.min(100, healthScore))
ClampScore(s) == Max(0, Min(100, s))

GRH_Return ==
    /\ op = "getRepositoryHealth" /\ pc = "return"
    /\ healthScore' = ClampScore(healthScore)
    /\ result' = [status |-> "ok",
                  name |-> repos[i].name,
                  healthScore |-> ClampScore(healthScore),
                  issues |-> issues,
                  strengths |-> strengths,
                  recommendations |-> recommendations]
    /\ pc' = "done"
    /\ UNCHANGED calls
    /\ UNCHANGED <<op, input, repos, i, issues, strengths, recommendations,
                   auxVars, sf311Vars>>

GetRepositoryHealth ==
    \/ GRH_Get
    \/ GRH_CheckLicense
    \/ GRH_CheckDescription
    \/ GRH_CheckReadme
    \/ GRH_CheckActivity
    \/ GRH_CheckStars
    \/ GRH_Recommend
    \/ GRH_Return

----------------------------------------------------------------------------
(* getRepositoryHealth registered in daemo-integrated-organizer.js *)

LicensePenaltyJS == 20
ReadmePenaltyJS == 20
DescriptionPenaltyJS == 10
StalePenaltyJS == 10

\* the issues in the order the handler pushes them
IssuesJS(repo) ==
    (IF MissingLicense(repo) THEN <<"Missing LICENSE file">> ELSE <<>>)
    \o (IF ReadmeProbeFails(repo) THEN <<"Missing README.md">> ELSE <<>>)
    \o (IF WeakDescription(repo) THEN <<"Weak or missing description">> ELSE <<>>)
    \o (IF StaleSixMonthsJS(repo) THEN <<"Not updated in 6+ months">> ELSE <<>>)

\* the license penalty added instead of subtracted
ScoreJS_SignSlip(repo) ==
    100 + (IF MissingLicense(repo) THEN LicensePenaltyJS ELSE 0)
        - (IF ReadmeProbeFails(repo) THEN ReadmePenaltyJS ELSE 0)
        - (IF WeakDescription(repo) THEN DescriptionPenaltyJS ELSE 0)
        - (IF StaleSixMonthsJS(repo) THEN StalePenaltyJS ELSE 0)

ScoreJS(repo) ==
    100 - (IF MissingLicense(repo) THEN LicensePenaltyJS ELSE 0)
        - (IF ReadmeProbeFails(repo) THEN ReadmePenaltyJS ELSE 0)
        - (IF WeakDescription(repo) THEN DescriptionPenaltyJS ELSE 0)
        - (IF StaleSixMonthsJS(repo) THEN StalePenaltyJS ELSE 0)

\* the handler catches every error and returns it as text
JS_GetRepositoryHealth ==
    /\ op = "JS.getRepositoryHealth" /\ pc = "start"
    /\ \E ok \in BOOLEAN :
         /\ calls' = calls \o <<GetRequest(input.repo, ok /\ input.repo \in 1..Len(repos))>>
                    \o (IF ok /\ input.repo \in 1..Len(repos)
                        THEN <<ReadmeProbe(input.repo)>> ELSE <<>>)
         /\ IF ok /\ input.repo \in 1..Len(repos)
            THEN /\ i' = input.repo
                 /\ issues' = IssuesJS(repos[input.repo])
                 /\ healthScore' = ScoreJS(repos[input.repo])
                 /\ result' = [status |-> "ok",
                               name |-> repos[input.repo].name,
                               healthScore |-> ScoreJS(repos[input.repo]),
                               issues |-> IssuesJS(repos[input.repo])]
            ELSE /\ result' = [status |-> "errorText",
                               message |-> "Error checking repository health"]
                 /\ UNCHANGED <<i, issues, healthScore>>
    /\ pc' = "done"
    /\ UNCHANGED <<op, input, repos, strengths, recommendations, auxVars, sf311Vars>>

----------------------------------------------------------------------------
(* analyzeAllRepositories registered in daemo-integrated-organizer.js *)

\* the languages object: one <<language, count>> entry per language, in the
\* order the keys were first inserted
RECURSIVE CountLanguages(_)
CountLanguages(rs) ==
    IF rs = <<>> THEN <<>>
    ELSE LET before == CountLanguages(SubSeq(rs, 1, Len(rs) - 1))
             r == rs[Len(rs)]
         IN  IF ~Truthy(r.language) THEN before
             ELSE IF \E k \in 1..Len(before) : before[k][1] = r.language[1]
                  THEN [k \in 1..Len(before) |->
                          IF before[k][1] = r.language[1]
                          THEN <<before[k][1], before[k][2] + 1>>
                          ELSE before[k]]
                  ELSE Append(before, <<r.language[1], 1>>)

\* stable insertion of the pair e = <<key, value>> into a sequence of pairs
\* that is sorted by descending key: e goes after the pairs with an equal key
RECURSIVE InsertDesc(_, _)
InsertDesc(s, e) ==
    IF s = <<>> THEN <<e>>
    ELSE IF e[1] > s[Len(s)][1]
         THEN Append(InsertDesc(SubSeq(s, 1, Len(s) - 1), e), s[Len(s)])
         ELSE Append(s, e)

\* Array.prototype.sort((a, b) => key(b) - key(a)) on <<key, value>> pairs:
\* a stable sort by descending key
RECURSIVE SortDesc(_)
SortDesc(s) ==
    IF s = <<>> THEN <<>>
    ELSE InsertDesc(SortDesc(SubSeq(s, 1, Len(s) - 1)), s[Len(s)])

\* the entries taken in reverse insertion order before the sort
SortedLanguages_Reversed(langs) ==
    LET keyed == [k \in 1..Len(langs) |->
                    <<langs[Len(langs) + 1 - k][2], langs[Len(langs) + 1 - k]>>]
        sorted == SortDesc(keyed)
    IN  [k \in 1..Len(sorted) |-> sorted[k][2]]

\* Object.entries(languages).sort((a, b) => b[1] - a[1])
SortedLanguages(langs) ==
    LET keyed == [k \in 1..Len(langs) |-> <<langs[k][2], langs[k]>>]
        sorted == SortDesc(keyed)
    IN  [k \in 1..Len(sorted) |-> sorted[k][2]]

\* repoDetails.sort((a, b) => b.stars - a.stars)
SortByStars(details) ==
    LET keyed == [k \in 1..Len(details) |-> <<details[k].stars, details[k]>>]
        sorted == SortDesc(keyed)
    IN  [k \in 1..Len(sorted) |-> sorted[k][2]]

IssuesAllJS(repo) ==
    (IF MissingLicense(repo) THEN <<"Missing LICENSE file">> ELSE <<>>)
    \o (IF ReadmeProbeFails(repo) THEN <<"Missing README.md">> ELSE <<>>)
    \o (IF WeakDescription(repo) THEN <<"Weak or missing description">> ELSE <<>>)
    \o (IF IsPractice(repo, practiceKeywordsJS) /\ ~repo.private
        THEN <<"Practice/demo code should be private">> ELSE <<>>)

\* Math.max(0, 100 - (issues.length * 20))
ScoreAllJS(repo) == Max(0, 100 - Len(IssuesAllJS(repo)) * 20)

RepoDetailJS(repo) ==
    [name |-> repo.name,
     stars |-> repo.stargazers_count,
     forks |-> repo.forks_count,
     hasLicense |-> ~MissingLicense(repo),
     hasReadme |-> ~ReadmeProbeFails(repo),
     isPrivate |-> repo.private,
     issues |-> IssuesAllJS(repo),
     healthScore |-> ScoreAllJS(repo)]

JS_AAR_List ==
    /\ op = "JS.analyzeAllRepositories" /\ pc = "start"
    /\ \E ok \in BOOLEAN :
         /\ calls' = Append(calls, ListRequest(ok))
         /\ IF ok
            THEN /\ issues' = <<>>
                 /\ i' = 1
                 /\ pc' = "loop"
                 /\ UNCHANGED result
            ELSE /\ result' = [status |-> "errorText",
                               message |-> "Error analyzing repositories"]
                 /\ pc' = "done"
                 /\ UNCHANGED <<i, issues>>
    /\ UNCHANGED <<op, input, repos, strengths, recommendations, healthScore,
                   auxVars, sf311Vars>>

JS_AAR_Iterate ==
    /\ op = "JS.analyzeAllRepositories" /\ pc = "loop"
    /\ i <= Len(repos)
    /\ issues' = Append(issues, RepoDetailJS(repos[i]))
    /\ i' = i + 1
    /\ calls' = Append(calls, ReadmeProbe(i))
    /\ UNCHANGED <<op, pc, input, repos, strengths, recommendations,
                   healthScore, auxVars, sf311Vars, result>>

JS_AAR_Return ==
    /\ op = "JS.analyzeAllRepositories" /\ pc = "loop"
    /\ i > Len(repos)
    /\ LET sorted == SortByStars(issues)
           langs == CountLanguages(repos)
       IN  /\ issues' = sorted
           /\ result' = [status |-> "ok",
                         totalRepos |-> Len(repos),
                         repoDetails |-> sorted,
                         mostCommonLang |->
                             IF Len(langs) > 0
                             THEN SortedLanguages(langs)[1][1] ELSE "N/A"]
    /\ pc' = "done"
    /\ UNCHANGED calls
    /\ UNCHANGED <<op, input, repos, i, strengths, recommendations,
                   healthScore, auxVars, sf311Vars>>

JS_AnalyzeAllRepositories ==
    \/ JS_AAR_List
    \/ JS_AAR_Iterate
    \/ JS_AAR_Return

----------------------------------------------------------------------------
(* GitHubFunctions.analyzeAllRepositories (TypeScript) *)

Issue(repo, severity, issue) ==
    [repo |-> repo.name, severity |-> severity, issue |-> issue]

\* the issues one iteration of the loop pushes, in order; a failed README
\* probe is caught inside the iteration
RepoIssues(repo) ==
    (IF MissingLicense(repo)
     THEN <<Issue(repo, "high", "Missing LICENSE file")>> ELSE <<>>)
    \o (IF WeakDescription(repo)
        THEN <<Issue(repo, "medium", "Weak or missing description")>> ELSE <<>>)
    \o (IF ReadmeProbeFails(repo)
        THEN <<Issue(repo, "high", "Missing README.md")>> ELSE <<>>)
    \o (IF StaleSixMonths(repo)
        THEN <<Issue(repo, "low", "Repository hasn't been updated in 6+ months")>>
        ELSE <<>>)
    \o (IF IsPractice(repo, practiceKeywords) /\ ~repo.private
        THEN <<Issue(repo, "medium", "Practice/demo code should be private")>>
        ELSE <<>>)

\* the failed list request answered with an empty analysis
AAR_List_Swallow ==
    /\ op = "analyzeAllRepositories" /\ pc = "start"
    /\ \E ok \in BOOLEAN :
         /\ calls' = Append(calls, ListRequest(ok))
         /\ IF ok
            THEN /\ issues' = <<>>
                 /\ i' = 1
                 /\ pc' = "loop"
                 /\ UNCHANGED result
            ELSE /\ result' = [status |-> "ok", totalRepos |-> 0, analyzed |-> 0,
                               issues |-> <<>>,
                               summary |-> [total |-> 0, high |-> 0,
                                            medium |-> 0, low |-> 0]]
                 /\ pc' = "done"
                 /\ UNCHANGED <<i, issues>>
    /\ UNCHANGED <<op, input, repos, strengths, recommendations, healthScore,
                   auxVars, sf311Vars>>

AAR_List ==
    /\ op = "analyzeAllRepositories" /\ pc = "start"
    /\ \E ok \in BOOLEAN :
         /\ calls' = Append(calls, ListRequest(ok))
         /\ IF ok
            THEN /\ issues' = <<>>
                 /\ i' = 1
                 /\ pc' = "loop"
                 /\ UNCHANGED result
            ELSE /\ result' = [status |-> "error", message |-> "GitHub API error"]
                 /\ pc' = "done"
                 /\ UNCHANGED <<i, issues>>
    /\ UNCHANGED <<op, input, repos, strengths, recommendations, healthScore,
                   auxVars, sf311Vars>>

AAR_Iterate ==
    /\ op = "analyzeAllRepositories" /\ pc = "loop"
    /\ i <= Len(repos)
    /\ issues' = IF ~input.includePrivate /\ repos[i].private
                 THEN issues
                 ELSE issues \o RepoIssues(repos[i])
    /\ i' = i + 1
    /\ calls' = IF ~input.includePrivate /\ repos[i].private
                THEN calls
                ELSE Append(calls, ReadmeProbe(i))
    /\ UNCHANGED <<op, pc, input, repos, strengths, recommendations,
                   healthScore, auxVars, sf311Vars, result>>

CountSeverity(is, severity) ==
    Cardinality({k \in 1..Len(is) : is[k].severity = severity})

AAR_Return ==
    /\ op = "analyzeAllRepositories" /\ pc = "loop"
    /\ i > Len(repos)
    /\ result' = [status |-> "ok",
                  totalRepos |-> Len(repos),
                  analyzed |-> Len(repos),
                  issues |-> issues,
                  summary |-> [total |-> Len(issues),
                               high |-> CountSeverity(issues, "high"),
                               medium |-> CountSeverity(issues, "medium"),
                               low |-> CountSeverity(issues, "low")]]
    /\ pc' = "done"
    /\ UNCHANGED calls
    /\ UNCHANGED <<op, input, repos, i, issues, strengths, recommendations,
                   healthScore, auxVars, sf311Vars>>

AnalyzeAllRepositories ==
    \/ AAR_List
    \/ AAR_Iterate
    \/ AAR_Return

----------------------------------------------------------------------------
(* GitHubFunctions.findRepositoriesWithIssues (TypeScript) *)

IssueTypes == {"missing-license", "missing-readme", "weak-description", "stale", "all"}

Finding(repo, issue) == [name |-> repo.name, issue |-> issue]

\* the results one iteration of the loop pushes for the issue type t; the
\* README probe is issued only for "missing-readme" and "all"
\* "all" taken without the stale rule
RepoFindings_AllWithoutStale(repo, t) ==
    (IF t \in {"missing-license", "all"} /\ MissingLicense(repo)
     THEN <<Finding(repo, "Missing LICENSE file")>> ELSE <<>>)
    \o (IF t \in {"missing-readme", "all"} /\ ReadmeProbeFails(repo)
        THEN <<Finding(repo, "Missing README.md")>> ELSE <<>>)
    \o (IF t \in {"weak-description", "all"} /\ WeakDescription(repo)
        THEN <<Finding(repo, "Weak or missing description")>> ELSE <<>>)
    \o (IF t = "stale" /\ StaleSixMonths(repo)
        THEN <<Finding(repo, "Not updated in 6+ months")>> ELSE <<>>)

RepoFindings(repo, t) ==
    (IF t \in {"missing-license", "all"} /\ MissingLicense(repo)
     THEN <<Finding(repo, "Missing LICENSE file")>> ELSE <<>>)
    \o (IF t \in {"missing-readme", "all"} /\ ReadmeProbeFails(repo)
        THEN <<Finding(repo, "Missing README.md")>> ELSE <<>>)
    \o (IF t \in {"weak-description", "all"} /\ WeakDescription(repo)
        THEN <<Finding(repo, "Weak or missing description")>> ELSE <<>>)
    \o (IF t \in {"stale", "all"} /\ StaleSixMonths(repo)
        THEN <<Finding(repo, "Not updated in 6+ months")>> ELSE <<>>)

FRI_List ==
    /\ op = "findRepositoriesWithIssues" /\ pc = "start"
    /\ \E ok \in BOOLEAN :
         /\ calls' = Append(calls, ListRequest(ok))
         /\ IF ok
            THEN /\ issues' = <<>>
                 /\ i' = 1
                 /\ pc' = "loop"
                 /\ UNCHANGED result
            ELSE /\ result' = [status |-> "error", message |-> "Search failed"]
                 /\ pc' = "done"
                 /\ UNCHANGED <<i, issues>>
    /\ UNCHANGED <<op, input, repos, strengths, recommendations, healthScore,
                   auxVars, sf311Vars>>

\* the iteration turned into a repair: a missing README is created
FRI_Iterate_AddsReadme ==
    /\ op = "findRepositoriesWithIssues" /\ pc = "loop"
    /\ i <= Len(repos)
    /\ issues' = issues \o RepoFindings(repos[i], input.issueType)
    /\ i' = i + 1
    /\ calls' = IF input.issueType \in {"missing-readme", "all"}
                THEN calls \o <<ReadmeProbe(i)>>
                     \o (IF ReadmeProbeFails(repos[i])
                         THEN <<Request("repos.createOrUpdateFileContents", i,
                                        "README.md", TRUE)>>
                         ELSE <<>>)
                ELSE calls
    /\ repos' = IF input.issueType \in {"missing-readme", "all"}
                THEN [repos EXCEPT ![i].readme = "ok"] ELSE repos
    /\ UNCHANGED <<op, pc, input, strengths, recommendations,
                   healthScore, auxVars, sf311Vars, result>>

FRI_Iterate ==
    /\ op = "findRepositoriesWithIssues" /\ pc = "loop"
    /\ i <= Len(repos)
    /\ issues' = issues \o RepoFindings(repos[i], input.issueType)
    /\ i' = i + 1
    /\ calls' = IF input.issueType \in {"missing-readme", "all"}
                THEN Append(calls, ReadmeProbe(i))
                ELSE calls
    /\ UNCHANGED <<op, pc, input, repos, strengths, recommendations,
                   healthScore, auxVars, sf311Vars, result>>

FRI_Return ==
    /\ op = "findRepositoriesWithIssues" /\ pc = "loop"
    /\ i > Len(repos)
    /\ result' = [status |-> "ok", repositories |-> issues, count |-> Len(issues)]
    /\ pc' = "done"
    /\ UNCHANGED calls
    /\ UNCHANGED <<op, input, repos, i, issues, strengths, recommendations,
                   healthScore, auxVars, sf311Vars>>

\* the caller invokes the operation a second time with the same argument;
\* the locals and the requests of the first call are gone, its result is
\* remembered
FRI_Again ==
    /\ op = "findRepositoriesWithIssues" /\ pc = "done"
    /\ result.status = "ok"
    /\ lastResult = NoResult
    /\ lastResult' = result
    /\ result' = NoResult
    /\ i' = 0
    /\ issues' = <<>>
    /\ calls' = <<>>
    /\ pc' = "start"
    /\ UNCHANGED <<op, input, repos, strengths, recommendations, healthScore,
                   fixed, actions, tasks, sf311Vars>>

FindRepositoriesWithIssues ==
    \/ FRI_List
    \/ FRI_Iterate
    \/ FRI_Return
    \/ FRI_Again

----------------------------------------------------------------------------
(* GitHubFunctions.getPortfolioStatistics (TypeScript) and               *)
(* getPortfolioStatistics of daemo-integrated-organizer.js                *)

\* a JavaScript number is <<n>>; NaN is the empty sequence
Num(n) == <<n>>

NaN == <<>>

\* repos.filter(r => r.license).length
CountLicensed(rs) == Cardinality({k \in 1..Len(rs) : rs[k].license # Null})

\* repos.filter(r => r.private).length
CountPrivate(rs) == Cardinality({k \in 1..Len(rs) : rs[k].private})

\* repos.filter(r => !r.private).length
CountPublic(rs) == Cardinality({k \in 1..Len(rs) : ~rs[k].private})

\* withReadme of the JS handler: the repositories whose probe succeeded
CountWithReadme(rs) == Cardinality({k \in 1..Len(rs) : ~ReadmeProbeFails(rs[k])})

\* Math.round((count / total) * 100) for 0 <= count <= total: 0 / 0 is NaN and
\* Math.round(NaN) is NaN; Math.round rounds a half up
RoundPercent(count, total) ==
    IF total = 0 THEN NaN
    ELSE Num((200 * count + total) \div (2 * total))

\* a < b on JavaScript numbers: no comparison with NaN holds
NumLess(a, b) == a # NaN /\ b # NaN /\ a[1] < b[1]

PortfolioInsights(coverage, publicRepos, privateRepos, langs) ==
    (IF NumLess(coverage, Num(80))
     THEN <<[kind |-> "license-coverage", coverage |-> coverage]>> ELSE <<>>)
    \o (IF publicRepos > privateRepos * 2
        THEN <<[kind |-> "organize", publicRepos |-> publicRepos,
                privateRepos |-> privateRepos]>> ELSE <<>>)
    \o (IF Len(langs) > 0
        THEN <<[kind |-> "primary-language",
                language |-> SortedLanguages(langs)[1][1],
                count |-> SortedLanguages(langs)[1][2]]>> ELSE <<>>)

PortfolioStats(rs) ==
    LET coverage == RoundPercent(CountLicensed(rs), Len(rs))
        langs == CountLanguages(rs)
    IN  [status |-> "ok",
         totalRepositories |-> Len(rs),
         publicRepos |-> CountPublic(rs),
         privateRepos |-> CountPrivate(rs),
         totalStars |-> SumSeq([k \in 1..Len(rs) |-> rs[k].stargazers_count]),
         totalForks |-> SumSeq([k \in 1..Len(rs) |-> rs[k].forks_count]),
         languages |-> langs,
         licenseCoverage |-> coverage,
         readmeCoverage |-> Num(85),
         insights |-> PortfolioInsights(coverage, CountPublic(rs),
                                        CountPrivate(rs), langs)]

GetPortfolioStatistics ==
    /\ op = "getPortfolioStatistics" /\ pc = "start"
    /\ \E ok \in BOOLEAN :
         /\ calls' = Append(calls, ListRequest(ok))
         /\ result' = IF ok THEN PortfolioStats(repos)
                      ELSE [status |-> "error", message |-> "Failed to get statistics"]
    /\ pc' = "done"
    /\ UNCHANGED <<op, input, i, repos, issues, strengths, recommendations,
                   healthScore, auxVars, sf311Vars>>

\* the figures the JS handler prints; it probes the README of every
\* repository and returns every error as text
PortfolioStatsJS(rs) ==
    LET sorted == SortedLanguages(CountLanguages(rs))
    IN  [status |-> "ok",
         totalRepositories |-> Len(rs),
         publicRepos |-> Len(rs) - CountPrivate(rs),
         privateRepos |-> CountPrivate(rs),
         withLicense |-> CountLicensed(rs),
         licensePercent |-> RoundPercent(CountLicensed(rs), Len(rs)),
         withReadme |-> CountWithReadme(rs),
         readmePercent |-> RoundPercent(CountWithReadme(rs), Len(rs)),
         topLanguages |-> SubSeq(sorted, 1, Min(5, Len(sorted)))]

JS_GetPortfolioStatistics ==
    /\ op = "JS.getPortfolioStatistics" /\ pc = "start"
    /\ \E ok \in BOOLEAN :
         /\ calls' = calls \o <<ListRequest(ok)>> \o (IF ok THEN ReadmeProbesFrom(1) ELSE <<>>)
         /\ result' = IF ok THEN PortfolioStatsJS(repos)
                      ELSE [status |-> "errorText",
                            message |-> "Error getting portfolio statistics"]
    /\ pc' = "done"
    /\ UNCHANGED <<op, input, i, repos, issues, strengths, recommendations,
                   healthScore, auxVars, sf311Vars>>

----------------------------------------------------------------------------
(* GitHubFunctions.autoFixAllIssues (TypeScript) and autoFixAllIssues of   *)
(* daemo-integrated-organizer.js.  The two run the same statements for a   *)
(* repository; they differ in the order of their first two requests, in    *)
(* the ownership test, and in how they return and fail.                    *)

AutoFixOps == {"autoFixAllIssues", "JS.autoFixAllIssues"}

\* user.login of the authenticated user
AuthenticatedUser == "me"

\* octokit.users.getAuthenticated
UserRequest(ok) == Request("users.getAuthenticated", 0, "", ok)

\* octokit.repos.getContent with path LICENSE for the k-th repository
LicenseProbe(k) ==
    Request("repos.getContent", k, "LICENSE", repos[k].licenseFile = "ok")

LicenseProbeFails(repo) == repo.licenseFile # "ok"

\* octokit.repos.createOrUpdateFileContents, sent without the sha of an
\* existing file
CreateFile(k, path, ok) == Request("repos.createOrUpdateFileContents", k, path, ok)

\* octokit.repos.update({private: true})
UpdateRepo(k, ok) == Request("repos.update", k, "", ok)

\* practiceKeywords.some(keyword => repo.name.toLowerCase().includes(keyword))
IsPracticeName(repo) ==
    \E k \in 1..Len(practiceKeywords) :
        Includes(ToLowerCase(repo.name), practiceKeywords[k])

\* the outer catch: the TypeScript method throws, the JS handler returns the
\* error as text; neither hands out what it had collected
AutoFixFailure ==
    IF op = "autoFixAllIssues"
    THEN [status |-> "error", message |-> "Auto-fix failed"]
    ELSE [status |-> "errorText", message |-> "Error during auto-fix"]

AFI_Start ==
    /\ op = "autoFixAllIssues" /\ pc = "start"
    /\ \E okUser \in BOOLEAN, okList \in BOOLEAN :
         /\ calls' = calls \o <<UserRequest(okUser)>>
                           \o (IF okUser THEN <<ListRequest(okList)>> ELSE <<>>)
         /\ IF okUser /\ okList
            THEN /\ fixed' = <<>>
                 /\ i' = 1
                 /\ pc' = "loop"
                 /\ UNCHANGED result
            ELSE /\ result' = AutoFixFailure
                 /\ pc' = "done"
                 /\ UNCHANGED <<i, fixed>>
    /\ UNCHANGED <<op, input, repos, issues, strengths, recommendations,
                   healthScore, actions, lastResult, tasks, sf311Vars>>

JS_AFI_Start ==
    /\ op = "JS.autoFixAllIssues" /\ pc = "start"
    /\ \E okList \in BOOLEAN, okUser \in BOOLEAN :
         /\ calls' = calls \o <<ListRequest(okList)>>
                           \o (IF okList THEN <<UserRequest(okUser)>> ELSE <<>>)
         /\ IF okList /\ okUser
            THEN /\ fixed' = <<>>
                 /\ i' = 1
                 /\ pc' = "loop"
                 /\ UNCHANGED result
            ELSE /\ result' = AutoFixFailure
                 /\ pc' = "done"
                 /\ UNCHANGED <<i, fixed>>
    /\ UNCHANGED <<op, input, repos, issues, strengths, recommendations,
                   healthScore, actions, lastResult, tasks, sf311Vars>>

\* if (repo.owner.login !== user.login) continue; only in the JS handler
JS_AFI_SkipNotOwned ==
    /\ op = "JS.autoFixAllIssues" /\ pc = "loop"
    /\ i <= Len(repos)
    /\ repos[i].owner # AuthenticatedUser
    /\ i' = i + 1
    /\ UNCHANGED <<op, pc, input, repos, issues, strengths, recommendations,
                   healthScore, calls, auxVars, sf311Vars, result>>

\* the LICENSE step: the file is created inside the catch of the probe, so
\* a failed creation leaves the loop through the outer catch
AFI_License ==
    /\ op \in AutoFixOps /\ pc = "loop"
    /\ i <= Len(repos)
    /\ op = "JS.autoFixAllIssues" => repos[i].owner = AuthenticatedUser
    /\ IF MissingLicense(repos[i]) /\ LicenseProbeFails(repos[i])
       THEN \E ok \in BOOLEAN :
              /\ calls' = calls \o <<LicenseProbe(i), CreateFile(i, "LICENSE", ok)>>
              /\ IF ok
                 THEN /\ repos' = [repos EXCEPT ![i].licenseFile = "ok"]
                      /\ actions' = <<"Added LICENSE">>
                      /\ pc' = "readme"
                      /\ UNCHANGED result
                 ELSE /\ result' = AutoFixFailure
                      /\ actions' = <<>>
                      /\ pc' = "done"
                      /\ UNCHANGED repos
       ELSE /\ calls' = IF MissingLicense(repos[i])
                        THEN Append(calls, LicenseProbe(i)) ELSE calls
            /\ actions' = <<>>
            /\ pc' = "readme"
            /\ UNCHANGED <<repos, result>>
    /\ UNCHANGED <<op, input, i, issues, strengths, recommendations,
                   healthScore, fixed, lastResult, tasks, sf311Vars>>

AFI_Readme ==
    /\ op \in AutoFixOps /\ pc = "readme"
    /\ IF ReadmeProbeFails(repos[i])
       THEN \E ok \in BOOLEAN :
              /\ calls' = calls \o <<ReadmeProbe(i), CreateFile(i, "README.md", ok)>>
              /\ IF ok
                 THEN /\ repos' = [repos EXCEPT ![i].readme = "ok"]
                      /\ actions' = Append(actions, "Added README")
                      /\ pc' = "private"
                      /\ UNCHANGED result
                 ELSE /\ result' = AutoFixFailure
                      /\ pc' = "done"
                      /\ UNCHANGED <<repos, actions>>
       ELSE /\ calls' = Append(calls, ReadmeProbe(i))
            /\ pc' = "private"
            /\ UNCHANGED <<repos, actions, result>>
    /\ UNCHANGED <<op, input, i, issues, strengths, recommendations,
                   healthScore, fixed, lastResult, tasks, sf311Vars>>

\* the visibility step without the test of repo.private
AFI_Private_AlsoPrivate ==
    /\ op \in AutoFixOps /\ pc = "private"
    /\ IF IsPracticeName(repos[i])
       THEN \E ok \in BOOLEAN :
              /\ calls' = Append(calls, UpdateRepo(i, ok))
              /\ IF ok
                 THEN /\ repos' = [repos EXCEPT ![i].private = TRUE]
                      /\ actions' = Append(actions, "Made private")
                      /\ pc' = "push"
                      /\ UNCHANGED result
                 ELSE /\ result' = AutoFixFailure
                      /\ pc' = "done"
                      /\ UNCHANGED <<repos, actions>>
       ELSE /\ pc' = "push"
            /\ UNCHANGED <<repos, actions, calls, result>>
    /\ UNCHANGED <<op, input, i, issues, strengths, recommendations,
                   healthScore, fixed, lastResult, tasks, sf311Vars>>

\* repos.update is awaited outside every inner try
AFI_Private ==
    /\ op \in AutoFixOps /\ pc = "private"
    /\ IF IsPracticeName(repos[i]) /\ ~repos[i].private
       THEN \E ok \in BOOLEAN :
              /\ calls' = Append(calls, UpdateRepo(i, ok))
              /\ IF ok
                 THEN /\ repos' = [repos EXCEPT ![i].private = TRUE]
                      /\ actions' = Append(actions, "Made private")
                      /\ pc' = "push"
                      /\ UNCHANGED result
                 ELSE /\ result' = AutoFixFailure
                      /\ pc' = "done"
                      /\ UNCHANGED <<repos, actions>>
       ELSE /\ pc' = "push"
            /\ UNCHANGED <<repos, actions, calls, result>>
    /\ UNCHANGED <<op, input, i, issues, strengths, recommendations,
                   healthScore, fixed, lastResult, tasks, sf311Vars>>

\* if (actions.length > 0) fixed.push({ repo: repo.name, actions })
AFI_Push ==
    /\ op \in AutoFixOps /\ pc = "push"
    /\ fixed' = IF Len(actions) > 0
                THEN Append(fixed, [repo |-> repos[i].name, actions |-> actions])
                ELSE fixed
    /\ i' = i + 1
    /\ pc' = "loop"
    /\ UNCHANGED <<op, input, repos, issues, strengths, recommendations,
                   healthScore, calls, actions, lastResult, tasks, sf311Vars, result>>

AFI_Return ==
    /\ op = "autoFixAllIssues" /\ pc = "loop"
    /\ i > Len(repos)
    /\ result' = [status |-> "ok", fixed |-> fixed, totalFixed |-> Len(fixed)]
    /\ pc' = "done"
    /\ UNCHANGED <<op, input, i, repos, issues, strengths, recommendations,
                   healthScore, calls, auxVars, sf311Vars>>

\* the text the JS handler returns lists one line per fixed repository
JS_AFI_Return ==
    /\ op = "JS.autoFixAllIssues" /\ pc = "loop"
    /\ i > Len(repos)
    /\ result' = [status |-> "ok", results |-> fixed]
    /\ pc' = "done"
    /\ UNCHANGED <<op, input, i, repos, issues, strengths, recommendations,
                   healthScore, calls, auxVars, sf311Vars>>

\* a second call of autoFixAllIssues once the first has returned; it lists
\* the repositories as they are by then
AFI_Again ==
    /\ op \in AutoFixOps /\ pc = "done"
    /\ result.status = "ok"
    /\ lastResult = NoResult
    /\ lastResult' = result
    /\ result' = NoResult
    /\ i' = 0
    /\ calls' = <<>>
    /\ fixed' = <<>>
    /\ actions' = <<>>
    /\ pc' = "start"
    /\ UNCHANGED <<op, input, repos, issues, strengths, recommendations,
                   healthScore, tasks, sf311Vars>>

\* a call of analyzeAllRepositories once autoFixAllIssues has returned; it
\* lists the repositories as they are by then
AFI_ThenAnalyze ==
    /\ op = "autoFixAllIssues" /\ pc = "done"
    /\ result.status = "ok"
    /\ lastResult = NoResult
    /\ op' = "analyzeAllRepositories"
    /\ input' \in [includePrivate : BOOLEAN]
    /\ lastResult' = result
    /\ result' = NoResult
    /\ i' = 0
    /\ issues' = <<>>
    /\ calls' = <<>>
    /\ pc' = "start"
    /\ UNCHANGED <<repos, strengths, recommendations, healthScore, fixed, actions,
                   tasks, sf311Vars>>

AutoFixAllIssues ==
    \/ AFI_Start
    \/ JS_AFI_Start
    \/ JS_AFI_SkipNotOwned
    \/ AFI_License
    \/ AFI_Readme
    \/ AFI_Private
    \/ AFI_Push
    \/ AFI_Return
    \/ JS_AFI_Return

----------------------------------------------------------------------------
(* Repositories and the invocations of the repository operations *)

Repo(name, description, license, private, updated_at, stars, language, readme) ==
    [name |-> name,
     owner |-> "me",
     description |-> description,
     license |-> license,
     private |-> private,
     updated_at |-> updated_at,
     stargazers_count |-> stars,
     forks_count |-> 0,
     language |-> language,
     readme |-> readme,
     licenseFile |-> IF license = Null THEN "notfound" ELSE "ok"]

ProbeOutcomes == {"ok", "notfound", "transient"}

\* every combination of the attributes the health rules read
HealthRepos ==
    {Repo(n, d, l, p, u, s, Null, r) :
        n \in {"app", "Demo-site", "Experiment-lab"},
        d \in {Null, Some(""), Some("short"), Some("A simple web server"),
               Some("My Tutorial project")},
        l \in {Null, Some("MIT License")},
        p \in BOOLEAN,
        u \in {Null, Some(Now), Some(Now - 1), Some(Now - 6), Some(Now - 7)},
        s \in {0, 11},
        r \in ProbeOutcomes}

\* the repositories of the list operations
ListRepos ==
    {Repo(c[1], c[2], l, c[3], c[4], 0, Null, r) :
        c \in {<<"Demo-site", Some(""), FALSE, Some(Now - 7)>>,
               <<"app", Some("A simple web server"), FALSE, Some(Now)>>,
               <<"app", Some("A simple web server"), TRUE, Some(Now - 7)>>,
               <<"test-app", Null, TRUE, Some(Now)>>},
        l \in {Null, Some("MIT License")},
        r \in ProbeOutcomes}

GitHubIdle ==
    /\ i = 0
    /\ issues = <<>>
    /\ strengths = <<>>
    /\ recommendations = <<>>
    /\ healthScore = 100
    /\ result = NoResult
    /\ calls = <<>>
    /\ fixed = <<>>
    /\ actions = <<>>
    /\ lastResult = NoResult
    /\ tasks = <<>>

SF311Idle ==
    /\ dataset = <<>>
    /\ rows = <<>>
    /\ resubmissions = 0
    /\ examples = <<>>

\* one repository, every operation that scores it
InitSingle ==
    /\ repos \in {<<r>> : r \in HealthRepos}
    /\ \/ /\ op \in {"getRepositoryHealth", "JS.getRepositoryHealth"}
          /\ input \in [repo : {0, 1}]
       \/ /\ op = "JS.analyzeAllRepositories"
          /\ input = [username |-> Null]
       \/ /\ op = "analyzeAllRepositories"
          /\ input \in [includePrivate : BOOLEAN]

\* a list of repositories, every operation that walks it
InitList ==
    /\ repos \in SeqUpTo(ListRepos, MaxRepos)
    /\ \/ /\ op = "analyzeAllRepositories"
          /\ input \in [includePrivate : BOOLEAN]
       \/ /\ op = "findRepositoriesWithIssues"
          /\ input \in [issueType : IssueTypes]
       \/ /\ op \in {"JS.analyzeAllRepositories", "getPortfolioStatistics"}
          /\ input = [username |-> Null]

InitGitHub ==
    /\ pc = "start"
    /\ InitSingle \/ InitList
    /\ GitHubIdle
    /\ SF311Idle

NextGitHub ==
    \/ GetRepositoryHealth
    \/ JS_GetRepositoryHealth
    \/ JS_AnalyzeAllRepositories
    \/ AnalyzeAllRepositories
    \/ FindRepositoriesWithIssues
    \/ GetPortfolioStatistics

SpecGitHub == InitGitHub /\ [][NextGitHub]_vars

\* the repositories of the portfolio statistics
PortfolioRepos ==
    {Repo("app", Some("A simple web server"), l, p, Some(Now), 0, g,
          IF p THEN "notfound" ELSE "ok") :
        l \in {Null, Some("MIT License")},
        p \in BOOLEAN,
        g \in {Null, Some("TypeScript"), Some("Python")}}

InitPortfolio ==
    /\ pc = "start"
    /\ op \in {"getPortfolioStatistics", "JS.getPortfolioStatistics",
               "JS.analyzeAllRepositories"}
    /\ input = [username |-> Null]
    /\ repos \in SeqUpTo(PortfolioRepos, MaxPortfolio)
    /\ GitHubIdle
    /\ SF311Idle

NextPortfolio ==
    \/ GetPortfolioStatistics
    \/ JS_GetPortfolioStatistics
    \/ JS_AnalyzeAllRepositories

SpecPortfolio == InitPortfolio /\ [][NextPortfolio]_vars

\* the repositories of the batch operations: nothing to fix, everything to
\* fix, and a LICENSE file GitHub has not recognised next to a README probe
\* that fails for another reason than absence; owned by the user or listed
\* from somebody else
FixRepos ==
    {[Repo(n, Some(d), c[1], c[4], Some(Now), 0, Null, c[3])
        EXCEPT !.owner = o, !.licenseFile = c[2]] :
        n \in {"app", "demo-site"},
        d \in {"A simple web server", "My Tutorial project"},
        o \in {"me", "other"},
        c \in {<<Some("MIT License"), "ok", "ok", FALSE>>,
               <<Null, "notfound", "notfound", FALSE>>,
               <<Null, "ok", "transient", TRUE>>}}

InitAutoFix ==
    /\ pc = "start"
    /\ \/ /\ op \in AutoFixOps
          /\ input = [username |-> Null]
       \/ /\ op = "analyzeAllRepositories"
          /\ input \in [includePrivate : BOOLEAN]
    /\ repos \in SeqUpTo(FixRepos, MaxFixRepos)
    /\ GitHubIdle
    /\ SF311Idle

NextAutoFix ==
    \/ AutoFixAllIssues
    \/ AnalyzeAllRepositories
    \/ AFI_Again
    \/ AFI_ThenAnalyze

SpecAutoFix == InitAutoFix /\ [][NextAutoFix]_vars

----------------------------------------------------------------------------
(* addLicenseToRepo and addReadmeToRepo.  Every await is one step of a     *)
(* call, so that calls in progress at the same time interleave between     *)
(* their requests.  All calls name the repository repos[1].                *)

\* most calls in progress at the same time
MaxCalls == 2

AddFileOps == {"addLicenseToRepo", "addReadmeToRepo", "JS.addLicenseToRepo"}

\* the file a call adds
FileOf(o) == IF o = "addReadmeToRepo" THEN "README.md" ELSE "LICENSE"

\* return { success: false, message: `... already exists in ...` }; the JS
\* handler returns the text alone
AlreadyExists(o) ==
    IF o = "JS.addLicenseToRepo"
    THEN [status |-> "ok", message |-> "LICENSE file already exists"]
    ELSE [status |-> "ok", success |-> FALSE,
          message |-> FileOf(o) \o " already exists"]

\* return { success: true, message: `Successfully added ...` }
Added(o) ==
    IF o = "JS.addLicenseToRepo"
    THEN [status |-> "ok", message |-> "Successfully added LICENSE"]
    ELSE [status |-> "ok", success |-> TRUE,
          message |-> "Successfully added " \o FileOf(o)]

\* the outer catch: the TypeScript methods throw, the JS handler returns the
\* error as text
AddFileFailure(o) ==
    IF o = "JS.addLicenseToRepo"
    THEN [status |-> "errorText", message |-> "Error adding LICENSE"]
    ELSE [status |-> "error",
          message |-> IF o = "addReadmeToRepo" THEN "Failed to add README"
                                               ELSE "Failed to add LICENSE"]

\* a step of call t: it sends the requests rs, moves to p and, when it
\* ends there, hands out r
TaskStep(t, rs, p, r) ==
    /\ tasks' = [tasks EXCEPT ![t].sent = @ \o rs, ![t].pc = p, ![t].result = r]
    /\ calls' = calls \o rs

\* if (repoName.includes('/')) [owner, repo] = repoName.split('/'), without
\* asking for the authenticated user
JS_ALR_Split ==
    /\ \E t \in DOMAIN tasks :
         /\ tasks[t].op = "JS.addLicenseToRepo" /\ tasks[t].pc = "start"
         /\ Includes(tasks[t].repoName, "/")
         /\ TaskStep(t, <<>>, "probe", NoResult)
    /\ UNCHANGED <<op, pc, input, repos, i, issues, strengths, recommendations,
                   healthScore, fixed, actions, lastResult, sf311Vars, result>>

\* octokit.users.getAuthenticated()
ALR_User ==
    /\ \E t \in DOMAIN tasks :
         /\ tasks[t].op \in AddFileOps /\ tasks[t].pc = "start"
         /\ tasks[t].op = "JS.addLicenseToRepo" => ~Includes(tasks[t].repoName, "/")
         /\ \E ok \in BOOLEAN :
              IF ok
              THEN TaskStep(t, <<UserRequest(ok)>>,
                            IF tasks[t].op = "addReadmeToRepo" THEN "get" ELSE "probe",
                            NoResult)
              ELSE TaskStep(t, <<UserRequest(ok)>>, "done",
                            AddFileFailure(tasks[t].op))
    /\ UNCHANGED <<op, pc, input, repos, i, issues, strengths, recommendations,
                   healthScore, fixed, actions, lastResult, sf311Vars, result>>

\* octokit.repos.get of addReadmeToRepo, for the title and the description
ARR_Get ==
    /\ \E t \in DOMAIN tasks :
         /\ tasks[t].op = "addReadmeToRepo" /\ tasks[t].pc = "get"
         /\ \E ok \in BOOLEAN :
              IF ok
              THEN TaskStep(t, <<GetRequest(1, ok)>>, "probe", NoResult)
              ELSE TaskStep(t, <<GetRequest(1, ok)>>, "done",
                            AddFileFailure(tasks[t].op))
    /\ UNCHANGED <<op, pc, input, repos, i, issues, strengths, recommendations,
                   healthScore, fixed, actions, lastResult, sf311Vars, result>>

\* the probe for LICENSE with its outcome ignored
ALR_Probe_Proceeds ==
    /\ \E t \in DOMAIN tasks :
         /\ tasks[t].op \in {"addLicenseToRepo", "JS.addLicenseToRepo"}
         /\ tasks[t].pc = "probe"
         /\ TaskStep(t, <<LicenseProbe(1)>>, "create", NoResult)
    /\ UNCHANGED <<op, pc, input, repos, i, issues, strengths, recommendations,
                   healthScore, fixed, actions, lastResult, sf311Vars, result>>

\* the probe for LICENSE: a found file ends the call, any error is swallowed
ALR_Probe ==
    /\ \E t \in DOMAIN tasks :
         /\ tasks[t].op \in {"addLicenseToRepo", "JS.addLicenseToRepo"}
         /\ tasks[t].pc = "probe"
         /\ IF LicenseProbeFails(repos[1])
            THEN TaskStep(t, <<LicenseProbe(1)>>, "create", NoResult)
            ELSE TaskStep(t, <<LicenseProbe(1)>>, "done", AlreadyExists(tasks[t].op))
    /\ UNCHANGED <<op, pc, input, repos, i, issues, strengths, recommendations,
                   healthScore, fixed, actions, lastResult, sf311Vars, result>>

\* the probe for README.md
ARR_Probe ==
    /\ \E t \in DOMAIN tasks :
         /\ tasks[t].op = "addReadmeToRepo" /\ tasks[t].pc = "probe"
         /\ IF ReadmeProbeFails(repos[1])
            THEN TaskStep(t, <<ReadmeProbe(1)>>, "create", NoResult)
            ELSE TaskStep(t, <<ReadmeProbe(1)>>, "done", AlreadyExists(tasks[t].op))
    /\ UNCHANGED <<op, pc, input, repos, i, issues, strengths, recommendations,
                   healthScore, fixed, actions, lastResult, sf311Vars, result>>

\* createOrUpdateFileContents succeeding over a file that is there
CreateOutcomes_Replacing(file) == BOOLEAN

\* the outcomes of createOrUpdateFileContents: the request carries no sha,
\* which GitHub requires for replacing a file that is there
CreateOutcomes(file) == IF file = "ok" THEN {FALSE} ELSE BOOLEAN

\* createOrUpdateFileContents with path LICENSE
ALR_Create ==
    /\ \E t \in DOMAIN tasks :
         /\ tasks[t].op \in {"addLicenseToRepo", "JS.addLicenseToRepo"}
         /\ tasks[t].pc = "create"
         /\ \E ok \in CreateOutcomes(repos[1].licenseFile) :
              IF ok
              THEN /\ TaskStep(t, <<CreateFile(1, "LICENSE", ok)>>, "done",
                               Added(tasks[t].op))
                   /\ repos' = [repos EXCEPT ![1].licenseFile = "ok"]
              ELSE /\ TaskStep(t, <<CreateFile(1, "LICENSE", ok)>>, "done",
                               AddFileFailure(tasks[t].op))
                   /\ UNCHANGED repos
    /\ UNCHANGED <<op, pc, input, i, issues, strengths, recommendations,
                   healthScore, fixed, actions, lastResult, sf311Vars, result>>

\* createOrUpdateFileContents with path README.md
ARR_Create ==
    /\ \E t \in DOMAIN tasks :
         /\ tasks[t].op = "addReadmeToRepo" /\ tasks[t].pc = "create"
         /\ \E ok \in CreateOutcomes(repos[1].readme) :
              IF ok
              THEN /\ TaskStep(t, <<CreateFile(1, "README.md", ok)>>, "done",
                               Added(tasks[t].op))
                   /\ repos' = [repos EXCEPT ![1].readme = "ok"]
              ELSE /\ TaskStep(t, <<CreateFile(1, "README.md", ok)>>, "done",
                               AddFileFailure(tasks[t].op))
                   /\ UNCHANGED repos
    /\ UNCHANGED <<op, pc, input, i, issues, strengths, recommendations,
                   healthScore, fixed, actions, lastResult, sf311Vars, result>>

AddFileToRepo ==
    \/ JS_ALR_Split
    \/ ALR_User
    \/ ARR_Get
    \/ ALR_Probe
    \/ ARR_Probe
    \/ ALR_Create
    \/ ARR_Create

\* the repository the calls name: with or without LICENSE, README.md there,
\* absent, or not readable for another reason
AddFileRepos ==
    {Repo("app", Some("A simple web server"), l, FALSE, Some(Now), 0, Null, r) :
        l \in {Null, Some("MIT License")}, r \in ProbeOutcomes}

\* a call that has not started
Task(o, n) == [op |-> o, repoName |-> n, pc |-> "start", sent |-> <<>>,
               result |-> NoResult]

NewTasks ==
    {Task(o, "app") : o \in AddFileOps} \cup {Task("JS.addLicenseToRepo", "me/app")}

InitAddFile ==
    /\ op = "addFile" /\ pc = "start"
    /\ input = [repoName |-> "app"]
    /\ repos \in {<<r>> : r \in AddFileRepos}
    /\ i = 0
    /\ issues = <<>>
    /\ strengths = <<>>
    /\ recommendations = <<>>
    /\ healthScore = 100
    /\ result = NoResult
    /\ calls = <<>>
    /\ fixed = <<>>
    /\ actions = <<>>
    /\ lastResult = NoResult
    /\ tasks \in SeqUpTo(NewTasks, MaxCalls)
    /\ SF311Idle

SpecAddFile == InitAddFile /\ [][AddFileToRepo]_vars

----------------------------------------------------------------------------
(* Numbers of the SF 311 analytics *)

\* 1000 * 60 * 60 * 24 milliseconds, in ticks
TicksPerDay == 200

Abs(n) == IF n < 0 THEN -n ELSE n

RECURSIVE GCD(_, _)
GCD(a, b) == IF b = 0 THEN a ELSE GCD(b, a % b)

RECURSIVE IsPowerOfTwo(_)
IsPowerOfTwo(n) == n = 1 \/ (n > 1 /\ n % 2 = 0 /\ IsPowerOfTwo(n \div 2))

\* the quotient num / den is a binary fraction, which a double holds exactly
Dyadic(num, den) == IsPowerOfTwo(den \div GCD(Abs(num), den))

\* Number((num / den).toFixed(2)) in hundredths, for den > 0.  toFixed
\* rounds the double to the nearest hundredth and an exact tie away from
\* zero.  A quotient that is a decimal tie (x.xx5) but no binary fraction is
\* held as a double slightly above or below the tie, so either neighbour can
\* be the result.
ToFixed2(num, den) ==
    LET sign == IF num < 0 THEN -1 ELSE 1
        n == 100 * Abs(num)
        lo == n \div den
        rem == n % den
    IN  IF 2 * rem < den THEN {sign * lo}
        ELSE IF 2 * rem > den THEN {sign * (lo + 1)}
        ELSE IF Dyadic(num, den) THEN {sign * (lo + 1)}
        ELSE {sign * lo, sign * (lo + 1)}

Sgn(n) == IF n < 0 THEN -1 ELSE 1

\* Number(x.toFixed(2)) in hundredths for the double x the source holds for
\* num / den, den > 0, where err is the sign of x - num / den.  Only at a
\* decimal tie that is no binary fraction does the side of the double
\* decide the result.
ToFixed2Of(num, den, err) ==
    LET sign == Sgn(num)
        n == 100 * Abs(num)
        lo == n \div den
        rem == n % den
    IN  IF 2 * rem < den THEN sign * lo
        ELSE IF 2 * rem > den THEN sign * (lo + 1)
        ELSE IF Dyadic(num, den) THEN sign * (lo + 1)
        ELSE IF err * sign > 0 THEN sign * (lo + 1)
        ELSE sign * lo

\* insertion of e into an ascending sequence of numbers
RECURSIVE InsertAsc(_, _)
InsertAsc(s, e) ==
    IF s = <<>> THEN <<e>>
    ELSE IF e < s[Len(s)]
         THEN Append(InsertAsc(SubSeq(s, 1, Len(s) - 1), e), s[Len(s)])
         ELSE Append(s, e)

\* Array.prototype.sort((a, b) => a - b)
RECURSIVE SortAsc(_)
SortAsc(s) ==
    IF s = <<>> THEN <<>>
    ELSE InsertAsc(SortAsc(SubSeq(s, 1, Len(s) - 1)), s[Len(s)])

----------------------------------------------------------------------------
(* SF311Functions.analyzeCycleTimes *)

\* the durations left in fetch order
Durations_Unsorted(rs) ==
    [k \in 1..Len(rs) |-> rs[k].closed_date - rs[k].requested_datetime]

\* a closed date before the requested date counted as no time at all
Durations_ClampNegative(rs) ==
    SortAsc([k \in 1..Len(rs) |->
               Max(0, rs[k].closed_date - rs[k].requested_datetime)])

\* rows.map(r => (end - start) / (1000 * 60 * 60 * 24)).sort(...), in ticks
Durations(rs) ==
    SortAsc([k \in 1..Len(rs) |-> rs[k].closed_date - rs[k].requested_datetime])

ZeroStats ==
    [status |-> "ok",
     total_closed_analyzed |-> 0,
     avg_days_to_close |-> 0,
     median_days_to_close |-> 0,
     max_days_to_close |-> 0,
     min_days_to_close |-> 0]

\* the magnitudes of the durations of the rows
DurationMagnitudes(rs) == {Abs(Durations(rs)[k]) : k \in 1..Len(rs)}

\* the statistics of a non-empty set of rows, in hundredths of a day, when
\* the doubles of the durations whose magnitude is in `above` lie above
\* the exact quotient in magnitude and the others below it, and the doubles
\* of a rounded sum divided lie on the side avgErr resp. medianErr.  The
\* same duration is the same double wherever it is read; 0 + d, d + d and a
\* division by 1 or 2 are exact, every other addition rounds again.
CycleStatsWith(rs, above, avgErr, medianErr) ==
    LET durations == Durations(rs)
        n == Len(durations)
        sum == SumSeq(durations)
        mid == n \div 2
        Err(d) == IF Abs(d) \in above THEN Sgn(d) ELSE -Sgn(d)
        sumExact == n = 1 \/ (n = 2 /\ durations[1] = durations[2])
        \* durations[mid] of the source is durations[mid + 1] here
        median == IF n % 2 # 0
                  THEN ToFixed2Of(durations[mid + 1], TicksPerDay,
                                  Err(durations[mid + 1]))
                  ELSE ToFixed2Of(durations[mid] + durations[mid + 1],
                                  2 * TicksPerDay,
                                  IF durations[mid] = durations[mid + 1]
                                  THEN Err(durations[mid]) ELSE medianErr)
    IN  [status |-> "ok",
         total_closed_analyzed |-> Len(rs),
         avg_days_to_close |->
             ToFixed2Of(sum, TicksPerDay * n,
                        IF sumExact THEN Err(durations[1]) ELSE avgErr),
         median_days_to_close |-> median,
         max_days_to_close |->
             ToFixed2Of(durations[n], TicksPerDay, Err(durations[n])),
         min_days_to_close |->
             ToFixed2Of(durations[1], TicksPerDay, Err(durations[1]))]

\* the statistics the handler can return for a non-empty set of rows
CycleStats(rs) ==
    {CycleStatsWith(rs, above, avgErr, medianErr) :
        above \in SUBSET DurationMagnitudes(rs),
        avgErr \in {-1, 1},
        medianErr \in {-1, 1}}

\* without the early return durations[durations.length - 1] is undefined
\* for no rows and its toFixed throws a TypeError
CycleResults_NoGuard(rs) ==
    IF Len(rs) = 0
    THEN {[status |-> "error", message |-> "TypeError"]}
    ELSE CycleStats(rs)

\* the results the handler can return for the fetched rows
CycleResults(rs) ==
    IF Len(rs) = 0 THEN {ZeroStats} ELSE CycleStats(rs)

\* s LIKE p of SoQL: % in the pattern stands for any run of characters, _
\* for any one character, every other character for itself
RECURSIVE Like(_, _)
Like(s, p) ==
    IF Len(p) = 0 THEN Len(s) = 0
    ELSE LET c == SubSeq(p, 1, 1)
             rest == SubSeq(p, 2, Len(p))
         IN  IF c = "%"
             THEN Like(s, rest) \/ (Len(s) > 0 /\ Like(SubSeq(s, 2, Len(s)), p))
             ELSE /\ Len(s) > 0
                  /\ c = "_" \/ c = SubSeq(s, 1, 1)
                  /\ Like(SubSeq(s, 2, Len(s)), rest)

\* `${input.service_name_filter}%`: the filter text is put into the pattern
\* as it is
ServiceNamePattern(filter) == filter \o "%"

\* the cases the where clause selects: those of the dataset, which is taken
\* to satisfy the conditions on date, status and district, whose
\* service_name is LIKE the pattern when a filter is given
SelectRows(filter) ==
    IF Truthy(filter)
    THEN SelectSeq(dataset,
                   LAMBDA r : Like(r.service_name, ServiceNamePattern(filter[1])))
    ELSE dataset

\* runSoql: the query returns the rows or throws
ACT_Query ==
    /\ op = "analyzeCycleTimes" /\ pc = "start"
    /\ \E ok \in BOOLEAN :
         IF ok
         THEN /\ rows' = SelectRows(input.service_name_filter)
              /\ pc' = "compute"
              /\ UNCHANGED result
         ELSE /\ result' = [status |-> "error", message |-> "Data fetch failed"]
              /\ pc' = "done"
              /\ UNCHANGED rows
    /\ UNCHANGED <<op, input, i, githubVars, dataset, resubmissions, examples>>

ACT_Compute ==
    /\ op = "analyzeCycleTimes" /\ pc = "compute"
    /\ result' \in CycleResults(rows)
    /\ pc' = "done"
    /\ UNCHANGED <<op, input, i, githubVars, sf311Vars>>

AnalyzeCycleTimes ==
    \/ ACT_Query
    \/ ACT_Compute

\* the rows the query can return: closed cases, in any order
CycleRows ==
    [service_name : {"Encampments"},
     requested_datetime : {0, TicksPerDay},
     closed_date : {9, TicksPerDay, 2 * TicksPerDay, 3 * TicksPerDay,
                    4 * TicksPerDay}]

InitCycle ==
    /\ op = "analyzeCycleTimes"
    /\ pc = "start"
    /\ input = [days_ago |-> 90, service_name_filter |-> Null]
    /\ repos = <<>>
    /\ GitHubIdle
    /\ dataset \in SeqUpTo(CycleRows, MaxCycleRows)
    /\ rows = <<>>
    /\ resubmissions = 0
    /\ examples = <<>>

SpecCycle == InitCycle /\ [][AnalyzeCycleTimes]_vars

----------------------------------------------------------------------------
(* SF311Functions.analyzeResubmissions *)

REOPEN_WINDOW_DAYS == 7

\* the upper bound of the window taken exclusive
IsResubmission_Exclusive(prev, curr) ==
    /\ prev.address = curr.address
    /\ prev.service_subtype = curr.service_subtype
    /\ prev.closed_date # Null
    /\ LET diffTicks == curr.requested_datetime - prev.closed_date[1]
       IN  /\ diffTicks >= 0
           /\ diffTicks < 7 * TicksPerDay

\* the test of one iteration on prev = rows[k - 1] and curr = rows[k];
\* diffDays = (currOpened - prevClosed) / (1000 * 60 * 60 * 24)
IsResubmission(prev, curr) ==
    /\ prev.address = curr.address
    /\ prev.service_subtype = curr.service_subtype
    /\ prev.closed_date # Null
    /\ LET diffTicks == curr.requested_datetime - prev.closed_date[1]
       IN  /\ diffTicks >= 0
           /\ diffTicks <= REOPEN_WINDOW_DAYS * TicksPerDay

Example(prev, curr) ==
    [original_case |-> prev.service_request_id,
     closed_at |-> prev.closed_date,
     resubmitted_case |-> curr.service_request_id,
     opened_at |-> curr.requested_datetime,
     address |-> curr.address,
     issue |-> curr.service_subtype]

\* the cap tested one too late
ExamplesHaveRoom_OffByOne(es) == Len(es) <= 5

\* examples.length < 5
ExamplesHaveRoom(es) == Len(es) < 5

\* the ratio not scaled to a percentage
RatePercent_NoScale(count, total) ==
    IF total > 0 THEN ToFixed2(count, total) ELSE {0}

\* resubmission_rate_percent in hundredths of a percent
RatePercent(count, total) ==
    IF total > 0 THEN ToFixed2(count * 100, total) ELSE {0}

ARS_Query ==
    /\ op = "analyzeResubmissions" /\ pc = "start"
    /\ \E ok \in BOOLEAN :
         IF ok
         THEN /\ rows' = SelectRows(input.service_name_filter)
              /\ resubmissions' = 0
              /\ examples' = <<>>
              /\ i' = 2
              /\ pc' = "scan"
              /\ UNCHANGED result
         ELSE /\ result' = [status |-> "error", message |-> "Data fetch failed"]
              /\ pc' = "done"
              /\ UNCHANGED <<i, rows, resubmissions, examples>>
    /\ UNCHANGED <<op, input, githubVars, dataset>>

\* one iteration comparing the row with every row before it
ARS_Scan_AnyEarlier ==
    /\ op = "analyzeResubmissions" /\ pc = "scan"
    /\ i <= Len(rows)
    /\ IF \E j \in 1..(i - 1) : IsResubmission(rows[j], rows[i])
       THEN /\ resubmissions' = resubmissions + 1
            /\ examples' = IF ExamplesHaveRoom(examples)
                           THEN Append(examples, Example(rows[i - 1], rows[i]))
                           ELSE examples
       ELSE UNCHANGED <<resubmissions, examples>>
    /\ i' = i + 1
    /\ UNCHANGED <<op, pc, input, githubVars, dataset, rows, result>>

\* one iteration of the loop; the index i of the source is i - 1 here
ARS_Scan ==
    /\ op = "analyzeResubmissions" /\ pc = "scan"
    /\ i <= Len(rows)
    /\ IF IsResubmission(rows[i - 1], rows[i])
       THEN /\ resubmissions' = resubmissions + 1
            /\ examples' = IF ExamplesHaveRoom(examples)
                           THEN Append(examples, Example(rows[i - 1], rows[i]))
                           ELSE examples
       ELSE UNCHANGED <<resubmissions, examples>>
    /\ i' = i + 1
    /\ UNCHANGED <<op, pc, input, githubVars, dataset, rows, result>>

ARS_Return ==
    /\ op = "analyzeResubmissions" /\ pc = "scan"
    /\ i > Len(rows)
    /\ \E rate \in RatePercent(resubmissions, Len(rows)) :
         result' = [status |-> "ok",
                    total_cases_scanned |-> Len(rows),
                    potential_resubmissions |-> resubmissions,
                    resubmission_rate_percent |-> rate,
                    examples |-> examples]
    /\ pc' = "done"
    /\ UNCHANGED <<op, input, i, githubVars, sf311Vars>>

AnalyzeResubmissions ==
    \/ ARS_Query
    \/ ARS_Scan
    \/ ARS_Return

\* position of an address / subtype in the collation of the query
Collation == [A |-> 1, B |-> 2, S |-> 1, T |-> 2]

\* ORDER BY address, service_subtype, requested_datetime ASC
QueryOrder(a, b) ==
    \/ Collation[a.address] < Collation[b.address]
    \/ /\ a.address = b.address
       /\ \/ Collation[a.service_subtype] < Collation[b.service_subtype]
          \/ /\ a.service_subtype = b.service_subtype
             /\ a.requested_datetime <= b.requested_datetime

QueryOrdered(rs) == \A k \in 2..Len(rs) : QueryOrder(rs[k - 1], rs[k])

\* the rows get their service_request_id by position
WithIds(rs) ==
    [k \in 1..Len(rs) |->
        [service_request_id |-> k,
         service_name |-> rs[k].service_name,
         address |-> rs[k].address,
         service_subtype |-> rs[k].service_subtype,
         requested_datetime |-> rs[k].requested_datetime,
         closed_date |-> rs[k].closed_date]]

\* cases at two addresses with two subtypes, requested 0, 5, 7 and 8 days
\* after the start, open or closed at the start or one tick less than a day after it
CaseRows ==
    {[service_name |-> "Encampments", address |-> l[1], service_subtype |-> l[2],
      requested_datetime |-> r, closed_date |-> c] :
        l \in {<<"A", "S">>, <<"A", "T">>, <<"B", "S">>},
        r \in {0, 5 * TicksPerDay, 7 * TicksPerDay, 8 * TicksPerDay},
        c \in {Null, Some(0), Some(TicksPerDay - 1)}}

\* cases of one address and subtype, requested and closed within a day
LongCaseRows ==
    {[service_name |-> "Encampments", address |-> "A", service_subtype |-> "S",
      requested_datetime |-> r, closed_date |-> c] :
        r \in {0, TicksPerDay},
        c \in {Null, Some(0), Some(TicksPerDay)}}

InitResubmissionsOver(domain, n) ==
    /\ op = "analyzeResubmissions"
    /\ pc = "start"
    /\ input = [days_to_analyze |-> 30, service_name_filter |-> Null]
    /\ repos = <<>>
    /\ GitHubIdle
    /\ dataset \in {WithIds(rs) : rs \in {s \in SeqUpTo(domain, n) : QueryOrdered(s)}}
    /\ rows = <<>>
    /\ resubmissions = 0
    /\ examples = <<>>

InitResubmissions == InitResubmissionsOver(CaseRows, MaxRows)

InitLongResubmissions == InitResubmissionsOver(LongCaseRows, MaxLongRows)

SpecResubmissions == InitResubmissions /\ [][AnalyzeResubmissions]_vars

SpecLongResubmissions == InitLongResubmissions /\ [][AnalyzeResubmissions]_vars

\* the service names of the filtered dataset
ServiceNames == {"Encampments", "Abandoned Encampment", "Graffiti"}

\* the filter texts: none, empty, plain prefixes, and texts with a
\* character that LIKE reads as a wildcard
FilterTexts ==
    {Null, Some(""), Some("Encamp"), Some("Graffiti"), Some("%Encamp"),
     Some("_ncamp")}

\* closed cases of the three services
FilterCycleRows ==
    [service_name : ServiceNames,
     requested_datetime : {0},
     closed_date : {TicksPerDay, 2 * TicksPerDay}]

\* cases of the three services at one address
FilterCaseRows ==
    {[service_name |-> n, address |-> "A", service_subtype |-> "S",
      requested_datetime |-> r, closed_date |-> Some(0)] :
        n \in ServiceNames, r \in {0, TicksPerDay}}

InitFilter ==
    /\ pc = "start"
    /\ \/ /\ op = "analyzeCycleTimes"
          /\ input \in [days_ago : {90}, service_name_filter : FilterTexts]
          /\ dataset \in SeqUpTo(FilterCycleRows, MaxFilterRows)
       \/ /\ op = "analyzeResubmissions"
          /\ input \in [days_to_analyze : {30}, service_name_filter : FilterTexts]
          /\ dataset \in {WithIds(rs) :
                             rs \in {s \in SeqUpTo(FilterCaseRows, MaxFilterRows) :
                                        QueryOrdered(s)}}
    /\ repos = <<>>
    /\ GitHubIdle
    /\ rows = <<>>
    /\ resubmissions = 0
    /\ examples = <<>>

NextFilter ==
    \/ AnalyzeCycleTimes
    \/ AnalyzeResubmissions

SpecFilter == InitFilter /\ [][NextFilter]_vars

----------------------------------------------------------------------------
(* Properties of the repository operations *)

Returned(o) == op = o /\ pc = "done" /\ result.status = "ok"

\* no other listed repository has the name of repos[k]
UniqueName(k) == \A j \in 1..Len(repos) : j # k => repos[j].name # repos[k].name

\* the issue texts analyzeAllRepositories returned for repos[k], as a bag
IssuesReturnedFor(k) ==
    LET mine == SelectSeq(result.issues, LAMBDA e : e.repo = repos[k].name)
    IN  [j \in 1..Len(mine) |-> mine[j].issue]

\* the record of the classification scenario: empty description, no
\* license, failing README probe, updated 7 months ago, "demo" in the name,
\* public
ScenarioRecord(r) ==
    /\ r.description = Some("")
    /\ r.license = Null
    /\ r.readme # "ok"
    /\ r.updated_at = Some(Now - 7)
    /\ Includes(ToLowerCase(r.name), "demo")
    /\ ~r.private

FiveIssues(k) ==
    LET got == IssuesReturnedFor(k)
    IN  /\ Len(got) = 5
        /\ {got[j] : j \in 1..5} =
             {"Missing LICENSE file", "Weak or missing description",
              "Missing README.md", "Repository hasn't been updated in 6+ months",
              "Practice/demo code should be private"}

ScenarioClassified ==
    Returned("analyzeAllRepositories") =>
        \A k \in 1..Len(repos) :
            ScenarioRecord(repos[k]) /\ UniqueName(k) => FiveIssues(k)

\* C1 as stated: for the scenario record analyzeAllRepositories emits the
\* five issues and the single-repository health score is 40
C1_AsStated ==
    /\ ScenarioClassified
    /\ (Returned("getRepositoryHealth") \/ Returned("JS.getRepositoryHealth"))
         /\ ScenarioRecord(repos[i])
       => result.healthScore = 40

\* C1 amended: for the scenario record analyzeAllRepositories emits the five
\* issues; the single-repository health score is 40 with the weights of the
\* JS getRepositoryHealth (100 - 20 - 20 - 10 - 10) and 45 with the weights
\* of the TypeScript getRepositoryHealth (100 - 15 - 10 - 20 - 10)
C1_ScenarioScore ==
    /\ ScenarioClassified
    /\ Returned("JS.getRepositoryHealth") /\ ScenarioRecord(repos[i])
       => result.healthScore = 40
    /\ Returned("getRepositoryHealth") /\ ScenarioRecord(repos[i])
       => result.healthScore = 45

C1_Witness ==
    /\ Returned("getRepositoryHealth")
    /\ ScenarioRecord(repos[i])
    /\ Len(result.issues) = 4

\* the fixed penalty of an issue of the TypeScript getRepositoryHealth
IssuePenalty(issue) ==
    CASE issue = "Missing LICENSE file" -> 15
      [] issue = "Weak or missing description" -> 10
      [] issue = "Missing README.md" -> 20
      [] issue = "Not recently updated" -> 10
      [] OTHER -> 0

PenaltySum(is) == SumSeq([k \in 1..Len(is) |-> IssuePenalty(is[k])])

\* C2: at every point of the TypeScript getRepositoryHealth the score is
\* clamp(100 - sum of the fixed penalties of the issues recorded so far, 0,
\* 100), every recorded issue is one of the four kinds and is recorded once,
\* and the returned score and issues are those
C2_ScoreIsPenaltySum ==
    op = "getRepositoryHealth" /\ pc # "start" /\ result.status # "error" =>
        /\ healthScore = Max(0, Min(100, 100 - PenaltySum(issues)))
        /\ \A k \in 1..Len(issues) : IssuePenalty(issues[k]) > 0
        /\ \A j, k \in 1..Len(issues) : issues[j] = issues[k] => j = k
        /\ pc = "done" => /\ result.healthScore = healthScore
                          /\ result.issues = issues

C2_Witness ==
    /\ Returned("getRepositoryHealth")
    /\ Len(result.issues) = 4
    /\ result.healthScore = 45

\* C3: every reported health score is an integer in [0,100]
C3_ScoreInRange ==
    /\ Returned("getRepositoryHealth") => result.healthScore \in 0..100
    /\ Returned("JS.getRepositoryHealth") => result.healthScore \in 0..100
    /\ Returned("JS.analyzeAllRepositories") =>
         \A k \in 1..Len(result.repoDetails) :
             result.repoDetails[k].healthScore \in 0..100

C3_Witness ==
    /\ Returned("JS.analyzeAllRepositories")
    /\ \E k \in 1..Len(result.repoDetails) :
         /\ Len(result.repoDetails[k].issues) = 4
         /\ result.repoDetails[k].healthScore = 20

\* the texts returned for repos[k] by findRepositoriesWithIssues
FindingsReturnedFor(k) ==
    {result.repositories[j].issue :
        j \in {n \in 1..Len(result.repositories) :
                 result.repositories[n].name = repos[k].name}}

\* the README probe of the repository failed: the file is not there, or the
\* request failed for another reason
ProbeFailed(r) == r.readme \in {"notfound", "transient"}

\* C10: a README probe that fails, for whatever reason, is recorded as
\* "Missing README.md" and raises nothing: an operation raises only before
\* its first probe, and the checks that follow the probe, for this
\* repository and the later ones, have run
C10_ProbeFailureIsMissingReadme ==
    /\ op \in {"analyzeAllRepositories", "getRepositoryHealth",
               "findRepositoriesWithIssues"} /\ result.status = "error"
       => i = 0 /\ issues = <<>>
    /\ Returned("analyzeAllRepositories") =>
         \A k \in 1..Len(repos) :
             /\ ProbeFailed(repos[k])
             /\ UniqueName(k)
             /\ input.includePrivate \/ ~repos[k].private
             => LET got == IssuesReturnedFor(k)
                    texts == {got[j] : j \in 1..Len(got)}
                IN  /\ "Missing README.md" \in texts
                    /\ StaleSixMonths(repos[k]) <=>
                         "Repository hasn't been updated in 6+ months" \in texts
    /\ Returned("getRepositoryHealth") /\ ProbeFailed(repos[i]) =>
         /\ \E k \in 1..Len(result.issues) : result.issues[k] = "Missing README.md"
         /\ \/ \E k \in 1..Len(result.issues) :
                  result.issues[k] = "Not recently updated"
            \/ \E k \in 1..Len(result.strengths) :
                  result.strengths[k] = "Recently updated"
    /\ Returned("findRepositoriesWithIssues")
         /\ input.issueType \in {"missing-readme", "all"} =>
         \A k \in 1..Len(repos) :
             ProbeFailed(repos[k]) /\ UniqueName(k) =>
                 /\ "Missing README.md" \in FindingsReturnedFor(k)
                 /\ input.issueType = "all" =>
                      (StaleSixMonths(repos[k]) <=>
                         "Not updated in 6+ months" \in FindingsReturnedFor(k))

C10_Witness ==
    /\ Returned("analyzeAllRepositories")
    /\ Len(repos) = 2
    /\ repos[1].readme = "transient"
    /\ repos[2].readme = "notfound"
    /\ repos[1].name # repos[2].name
    /\ Len(result.issues) >= 4

----------------------------------------------------------------------------
(* Properties of the portfolio statistics *)

\* C4 as stated: licenseCoverage is a number in [0,100], it is
\* round(licensed / total x 100), and it is 0 for the empty repository set
C4_AsStated ==
    Returned("getPortfolioStatistics") =>
        LET licensed == Cardinality({k \in 1..Len(repos) : repos[k].license # Null})
            total == Len(repos)
            coverage == result.licenseCoverage
        IN  /\ coverage # NaN
            /\ coverage[1] \in 0..100
            /\ total = 0 => coverage[1] = 0
            /\ total > 0 =>
                 \* the integer nearest to 100 * licensed / total, a half up
                 /\ 2 * (100 * licensed - coverage[1] * total) <= total
                 /\ 2 * (coverage[1] * total - 100 * licensed) < total

----------------------------------------------------------------------------
(* Properties of the SF 311 analytics *)

\* C5: a query that returns no row gives the all-zero statistics and no
\* error: the only error is the one of a query that failed
C5_EmptyIsAllZero ==
    op = "analyzeCycleTimes" /\ pc = "done" /\ Len(rows) = 0 =>
        \/ /\ result.status = "ok"
           /\ result.total_closed_analyzed = 0
           /\ result.avg_days_to_close = 0
           /\ result.median_days_to_close = 0
           /\ result.min_days_to_close = 0
           /\ result.max_days_to_close = 0
        \* the query itself failed and returned nothing
        \/ /\ result.status = "error"
           /\ result.message = "Data fetch failed"

C5_Witness ==
    op = "analyzeCycleTimes" /\ pc = "done" /\ Len(rows) = 0 /\ result.status = "ok"

\* the durations of the fetched rows in ticks, in fetch order
FetchedDurations ==
    [k \in 1..Len(rows) |-> rows[k].closed_date - rows[k].requested_datetime]

\* the k-th smallest of the numbers ds, by rank
KthSmallest(ds, k) ==
    CHOOSE v \in {ds[j] : j \in 1..Len(ds)} :
        /\ Cardinality({j \in 1..Len(ds) : ds[j] < v}) < k
        /\ Cardinality({j \in 1..Len(ds) : ds[j] <= v}) >= k

\* the rows have exactly the durations days (in days), in some order
DurationsAre(days) ==
    /\ Len(rows) = Len(days)
    /\ \A d \in {days[k] : k \in 1..Len(days)} :
         Cardinality({k \in 1..Len(rows) : FetchedDurations[k] = d * TicksPerDay})
           = Cardinality({k \in 1..Len(days) : days[k] = d})

\* C6: for a non-empty set of rows the median is the middle one of the
\* durations by rank when their number is odd and the mean of the two
\* central ones when it is even, in days to two decimals, whatever the
\* order of the rows: [1,2,3] days give 2 and [1,2,3,4] give 2.5
C6_Median ==
    Returned("analyzeCycleTimes") /\ Len(rows) > 0 =>
        LET ds == FetchedDurations
            n == Len(ds)
        IN  /\ n % 2 = 1 =>
                 result.median_days_to_close
                   \in ToFixed2(KthSmallest(ds, (n + 1) \div 2), TicksPerDay)
            /\ n % 2 = 0 =>
                 result.median_days_to_close
                   \in ToFixed2(KthSmallest(ds, n \div 2)
                                + KthSmallest(ds, n \div 2 + 1), 2 * TicksPerDay)
            /\ DurationsAre(<<1, 2, 3>>) => result.median_days_to_close = 200
            /\ DurationsAre(<<1, 2, 3, 4>>) => result.median_days_to_close = 250

C6_Witness ==
    /\ Returned("analyzeCycleTimes")
    /\ DurationsAre(<<1, 2, 3, 4>>)
    /\ FetchedDurations[1] > FetchedDurations[2]
    /\ result.median_days_to_close = 250

\* the condition of the claim on the pair (rows[k - 1], rows[k])
CountsAsResubmission(k) ==
    LET previous == rows[k - 1]
        current == rows[k]
    IN  /\ previous.address = current.address
        /\ previous.service_subtype = current.service_subtype
        /\ previous.closed_date # Null
        /\ current.requested_datetime >= previous.closed_date[1]
        /\ current.requested_datetime - previous.closed_date[1] <= 7 * TicksPerDay

\* two rows of one address and subtype, the first closed at `closed`, the
\* second requested `days` days after the start
TwoRows(closed, days) ==
    /\ Len(rows) = 2
    /\ rows[1].address = rows[2].address
    /\ rows[1].service_subtype = rows[2].service_subtype
    /\ rows[1].closed_date = Some(closed)
    /\ rows[2].requested_datetime = days * TicksPerDay

\* C7: the pairs counted so far are exactly the consecutive pairs with the
\* same address and subtype whose first record is closed and whose second
\* was requested 0 to 7 days (both included) after that closure; requested
\* 5 days after the closure counts, 8 days after it or before it does not
C7_ResubmissionRule ==
    /\ op = "analyzeResubmissions" /\ pc = "scan" =>
         resubmissions = Cardinality({k \in 2..(i - 1) : CountsAsResubmission(k)})
    /\ Returned("analyzeResubmissions") =>
         /\ result.potential_resubmissions =
              Cardinality({k \in 2..Len(rows) : CountsAsResubmission(k)})
         /\ TwoRows(0, 5) => result.potential_resubmissions = 1
         /\ TwoRows(0, 7) => result.potential_resubmissions = 1
         /\ TwoRows(0, 8) => result.potential_resubmissions = 0
         /\ TwoRows(TicksPerDay - 1, 0) => result.potential_resubmissions = 0

C7_Witness ==
    /\ Returned("analyzeResubmissions")
    /\ Len(rows) = 3
    /\ CountsAsResubmission(2)
    /\ rows[3].address = rows[2].address
    /\ rows[3].service_subtype = rows[2].service_subtype
    /\ rows[2].closed_date # Null
    /\ rows[3].requested_datetime - rows[2].closed_date[1] > 7 * TicksPerDay
    /\ result.potential_resubmissions = 1

\* the positions of the detected pairs among rows[1..upto], in scan order
DetectedUpTo(upto) ==
    SelectSeq([k \in 1..upto |-> k], LAMBDA k : k >= 2 /\ CountsAsResubmission(k))

\* C8: the examples are the first min(count, 5) detected pairs in scan
\* order; later detections are counted and not appended
C8_ExamplesCapped ==
    op = "analyzeResubmissions" /\ pc \in {"scan", "done"}
        /\ result.status # "error" =>
        LET detected == DetectedUpTo(Min(i - 1, Len(rows)))
        IN  /\ resubmissions = Len(detected)
            /\ Len(examples) = Min(resubmissions, 5)
            /\ \A j \in 1..Len(examples) :
                 /\ examples[j].original_case = rows[detected[j] - 1].service_request_id
                 /\ examples[j].resubmitted_case = rows[detected[j]].service_request_id
                 /\ examples[j].closed_at = rows[detected[j] - 1].closed_date
                 /\ examples[j].opened_at = rows[detected[j]].requested_datetime
                 /\ examples[j].address = rows[detected[j]].address
                 /\ examples[j].issue = rows[detected[j]].service_subtype
            /\ pc = "done" => /\ result.examples = examples
                              /\ result.potential_resubmissions = resubmissions

C8_Witness ==
    /\ Returned("analyzeResubmissions")
    /\ result.potential_resubmissions = 6
    /\ Len(result.examples) = 5

\* C9: the rate is potential_resubmissions / total_cases_scanned x 100 to
\* two decimals (here in hundredths of a percent), 0 when nothing was
\* scanned, and within [0,100]
C9_Rate ==
    Returned("analyzeResubmissions") =>
        LET total == result.total_cases_scanned
            count == result.potential_resubmissions
            rate == result.resubmission_rate_percent
        IN  /\ total = Len(rows)
            /\ total = 0 => rate = 0
            /\ total > 0 => 2 * Abs(rate * total - 10000 * count) <= total
            /\ rate >= 0
            /\ rate <= 10000

C9_Witness ==
    /\ Returned("analyzeResubmissions")
    /\ result.total_cases_scanned = 3
    /\ result.potential_resubmissions = 2
    /\ result.resubmission_rate_percent = 6667

----------------------------------------------------------------------------
(* Properties of the failure handling *)

\* the operations of GitHubFunctions that start with a fetch
FetchingOps ==
    {"analyzeAllRepositories", "findRepositoriesWithIssues",
     "getPortfolioStatistics", "getRepositoryHealth"}

\* the k-th request is a repository-list fetch or a single-repository fetch
IsFetch(k) ==
    calls[k].request \in {"repos.listForAuthenticatedUser", "repos.get"}

\* C11: when the repository-list fetch or the single-repository fetch of a
\* GitHubFunctions operation fails, the operation has raised an error, the
\* error carries a message and nothing of a result, and the failed fetch is
\* the only request the operation ever sent (it is not sent again and
\* nothing follows it)
C11_FetchFailureRaises ==
    op \in FetchingOps =>
        \A k \in 1..Len(calls) :
            IsFetch(k) /\ ~calls[k].ok =>
                /\ pc = "done"
                /\ result.status = "error"
                /\ DOMAIN result = {"status", "message"}
                /\ Len(calls) = 1

C11_Witness ==
    /\ op = "analyzeAllRepositories"
    /\ Len(repos) = 2
    /\ calls = <<ListRequest(FALSE)>>
    /\ result.status = "error"

\* the operations that walk the repository list and send requests for each
\* repository
BatchOps == {"analyzeAllRepositories", "autoFixAllIssues", "JS.autoFixAllIssues"}

\* a request for the k-th repository has failed
RequestFailedFor(k) ==
    \E c \in 1..Len(calls) : calls[c].repo = k /\ ~calls[c].ok

\* C12 as stated: a batch operation that has ended after a request for one
\* repository failed has not given up the batch: it returns a result, and
\* what autoFixAllIssues had fixed for the other repositories is in it
C12_AsStated ==
    /\ op \in BatchOps
    /\ pc = "done"
    /\ \E k \in 1..Len(repos) : RequestFailedFor(k)
    => /\ result.status = "ok"
       /\ op = "autoFixAllIssues" => result.fixed = fixed
       /\ op = "JS.autoFixAllIssues" => result.results = fixed

----------------------------------------------------------------------------
(* Properties of the practice heuristic *)

\* the keyword set of the practice/demo rule
ClaimedPracticeKeywords ==
    {"practice", "test", "learning", "tutorial", "example", "demo", "temp",
     "experiment"}

\* the name or the description contains a keyword, whatever the case
MatchesPracticeRule(r) ==
    \E w \in ClaimedPracticeKeywords :
        \/ Includes(ToLowerCase(r.name), w)
        \/ r.description # Null /\ Includes(ToLowerCase(r.description[1]), w)

\* the issue texts JS analyzeAllRepositories returned for repos[k]
DetailIssuesFor(k) ==
    LET mine == SelectSeq(result.repoDetails, LAMBDA e : e.name = repos[k].name)
    IN  UNION {{mine[j].issues[n] : n \in 1..Len(mine[j].issues)} :
                  j \in 1..Len(mine)}

\* C13 as stated: analyzeAllRepositories, in GitHubFunctions and in the JS
\* handler, reports "Practice/demo code should be private" for a repository
\* exactly when the repository is public and its name or description
\* contains one of the eight keywords
C13_AsStated ==
    /\ Returned("analyzeAllRepositories") =>
         \A k \in 1..Len(repos) :
             UniqueName(k) =>
                 LET got == IssuesReturnedFor(k)
                 IN  (\E j \in 1..Len(got) :
                          got[j] = "Practice/demo code should be private")
                     <=> (~repos[k].private /\ MatchesPracticeRule(repos[k]))
    /\ Returned("JS.analyzeAllRepositories") =>
         \A k \in 1..Len(repos) :
             UniqueName(k) =>
                 ("Practice/demo code should be private" \in DetailIssuesFor(k)
                  <=> (~repos[k].private /\ MatchesPracticeRule(repos[k])))

----------------------------------------------------------------------------
(* Properties of findRepositoriesWithIssues *)

SingleKinds == {"missing-license", "missing-readme", "weak-description", "stale"}

\* the rule of one kind
KindHolds(r, t) ==
    CASE t = "missing-license" -> r.license = Null
      [] t = "missing-readme" -> ProbeFailed(r)
      [] t = "weak-description" ->
             r.description = Null \/ Len(r.description[1]) < 10
      [] t = "stale" -> r.updated_at # Null /\ r.updated_at[1] < Now - 6

KindText(t) ==
    CASE t = "missing-license" -> "Missing LICENSE file"
      [] t = "missing-readme" -> "Missing README.md"
      [] t = "weak-description" -> "Weak or missing description"
      [] t = "stale" -> "Not updated in 6+ months"

\* the entries of the single kind t over the listed repositories, in list
\* order
RECURSIVE KindEntriesUpTo(_, _)
KindEntriesUpTo(t, n) ==
    IF n = 0 THEN <<>>
    ELSE KindEntriesUpTo(t, n - 1)
         \o (IF KindHolds(repos[n], t)
             THEN <<[name |-> repos[n].name, issue |-> KindText(t)]>>
             ELSE <<>>)

KindEntries(t) == KindEntriesUpTo(t, Len(repos))

Occurrences(entries, e) ==
    Cardinality({j \in 1..Len(entries) : entries[j] = e})

RECURSIVE SumOver(_, _)
SumOver(f, S) ==
    IF S = {} THEN 0
    ELSE LET x == CHOOSE y \in S : TRUE IN f[x] + SumOver(f, S \ {x})

\* C14: findRepositoriesWithIssues with a single kind returns the entries of
\* that kind; with "all" it returns every entry exactly as often as the four
\* single kinds together return it, and nothing else; the count is the
\* number of entries returned
C14_AllIsUnionOfKinds ==
    Returned("findRepositoriesWithIssues") =>
        /\ result.count = Len(result.repositories)
        /\ input.issueType \in SingleKinds =>
             result.repositories = KindEntries(input.issueType)
        /\ input.issueType = "all" =>
             /\ \A j \in 1..Len(result.repositories) :
                    \E t \in SingleKinds :
                        Occurrences(KindEntries(t), result.repositories[j]) > 0
             /\ \A t \in SingleKinds :
                    \A j \in 1..Len(KindEntries(t)) :
                        LET e == KindEntries(t)[j]
                        IN  Occurrences(result.repositories, e) =
                              SumOver([u \in SingleKinds |->
                                         Occurrences(KindEntries(u), e)],
                                      SingleKinds)
             /\ result.count =
                    SumOver([u \in SingleKinds |-> Len(KindEntries(u))],
                            SingleKinds)

C14_Witness ==
    /\ Returned("findRepositoriesWithIssues")
    /\ input.issueType = "all"
    /\ Len(repos) = 2
    /\ \A t \in SingleKinds : Len(KindEntries(t)) >= 1
    /\ result.count >= 6

\* the requests that read from GitHub
ReadRequests ==
    {"repos.listForAuthenticatedUser", "repos.get", "repos.getContent",
     "users.getAuthenticated"}

\* C15: no step of findRepositoriesWithIssues changes a repository, every
\* request it sends is a read request, and a second call with the same
\* issueType over the same repositories returns what the first call
\* returned
C15_PureFilter ==
    [][op = "findRepositoriesWithIssues" =>
         /\ repos' = repos
         /\ \A k \in 1..Len(calls') : calls'[k].request \in ReadRequests
         /\ pc' = "done" /\ result'.status = "ok" /\ lastResult'.status = "ok"
            => result' = lastResult']_vars

C15_Witness ==
    /\ Returned("findRepositoriesWithIssues")
    /\ lastResult.status = "ok"
    /\ input.issueType = "all"
    /\ Len(calls) = 3
    /\ result.count >= 4
    /\ result = lastResult

----------------------------------------------------------------------------
(* Properties of the portfolio insights *)

\* license coverage as the statistics define it: round(licensed / total x
\* 100), and 0 for the empty repository set
ClaimedCoverage ==
    LET total == Len(repos)
        licensed == Cardinality({k \in 1..total : repos[k].license # Null})
    IN  IF total = 0 THEN 0 ELSE (200 * licensed + total) \div (2 * total)

ExpectedInsightKinds ==
    LET total == Len(repos)
        private == Cardinality({k \in 1..total : repos[k].private})
        public == total - private
    IN  (IF ClaimedCoverage < 80 THEN <<"license-coverage">> ELSE <<>>)
        \o (IF public > 2 * private THEN <<"organize">> ELSE <<>>)
        \o (IF \E k \in 1..total : Truthy(repos[k].language)
            THEN <<"primary-language">> ELSE <<>>)

\* C16 as stated: the insights of getPortfolioStatistics are, in this order
\* and with nothing else, the license-coverage warning iff license coverage
\* < 80, the organization suggestion iff public count > 2 x private count,
\* and the primary-language line iff some repository has a known language
C16_AsStated ==
    Returned("getPortfolioStatistics") =>
        [j \in 1..Len(result.insights) |-> result.insights[j].kind]
            = ExpectedInsightKinds

\* the languages of the listed repositories
KnownLanguages ==
    {repos[k].language[1] : k \in {j \in 1..Len(repos) : Truthy(repos[j].language)}}

RepositoriesIn(l) == {k \in 1..Len(repos) : repos[k].language = Some(l)}

\* l has the highest repository count
IsMostUsed(l) ==
    \A m \in KnownLanguages :
        Cardinality(RepositoriesIn(m)) <= Cardinality(RepositoriesIn(l))

\* l appears in the list before m does
AppearsBefore(l, m) ==
    \E k \in RepositoriesIn(l) : \A j \in RepositoriesIn(m) : k < j

\* the most used language; among several, the one that appears first
FirstMostUsed ==
    CHOOSE l \in KnownLanguages :
        /\ IsMostUsed(l)
        /\ \A m \in KnownLanguages \ {l} : IsMostUsed(m) => AppearsBefore(l, m)

\* C17: the primary language of getPortfolioStatistics and the most common
\* language of JS analyzeAllRepositories is the most used language, and
\* among languages that share the highest count it is the one that appears
\* first in the repository list
C17_TieGoesToFirstSeen ==
    /\ Returned("getPortfolioStatistics") /\ KnownLanguages # {} =>
         \E j \in 1..Len(result.insights) :
             /\ result.insights[j].kind = "primary-language"
             /\ result.insights[j].language = FirstMostUsed
             /\ result.insights[j].count = Cardinality(RepositoriesIn(FirstMostUsed))
    /\ Returned("JS.analyzeAllRepositories") /\ KnownLanguages # {} =>
         result.mostCommonLang = FirstMostUsed

C17_Witness ==
    /\ Returned("getPortfolioStatistics")
    /\ Len(repos) = 3
    /\ repos[1].language = Null
    /\ repos[2].language = Some("TypeScript")
    /\ repos[3].language = Some("Python")
    /\ \E j \in 1..Len(result.insights) :
           /\ result.insights[j].kind = "primary-language"
           /\ result.insights[j].language = "TypeScript"

----------------------------------------------------------------------------
(* Properties of the recommendations *)

\* getRepositoryHealth returned the issue s
IssueReturned(s) == \E k \in 1..Len(result.issues) : result.issues[k] = s

\* the number of returned recommendations of priority p that speak of w
Recommended(w, p) ==
    Cardinality({j \in 1..Len(result.recommendations) :
                    /\ result.recommendations[j].priority = p
                    /\ Includes(result.recommendations[j].action, w)})

OneIf(b) == IF b THEN 1 ELSE 0

\* C18: getRepositoryHealth returns one high-priority README recommendation
\* iff it returned the missing-README issue, one high-priority LICENSE
\* recommendation iff it returned the missing-LICENSE issue, one
\* medium-priority description recommendation iff it returned the
\* weak-description issue, and no other recommendation
C18_OneRecommendationPerKind ==
    Returned("getRepositoryHealth") =>
        /\ Recommended("README", "high") = OneIf(IssueReturned("Missing README.md"))
        /\ Recommended("LICENSE", "high") =
             OneIf(IssueReturned("Missing LICENSE file"))
        /\ Recommended("description", "medium") =
             OneIf(IssueReturned("Weak or missing description"))
        /\ Len(result.recommendations) =
             OneIf(IssueReturned("Missing README.md"))
             + OneIf(IssueReturned("Missing LICENSE file"))
             + OneIf(IssueReturned("Weak or missing description"))

C18_Witness ==
    /\ Returned("getRepositoryHealth")
    /\ IssueReturned("Not recently updated")
    /\ IssueReturned("Missing README.md")
    /\ IssueReturned("Weak or missing description")
    /\ ~IssueReturned("Missing LICENSE file")
    /\ Len(result.recommendations) = 2

----------------------------------------------------------------------------
(* Properties of the service-name filter *)

\* the text s begins with the text f
BeginsWith(s, f) == Len(f) <= Len(s) /\ SubSeq(s, 1, Len(f)) = f

\* the query has returned its rows
Fetched == pc \in {"compute", "scan"} \/ (pc = "done" /\ result.status = "ok")

\* C19 as stated: whatever filter text is given, the rows analyzeCycleTimes
\* and analyzeResubmissions work on are cases whose service_name begins
\* with that text; with "Encamp" they are the cases of "Encampments" and
\* never one of "Abandoned Encampment"
C19_AsStated ==
    Fetched /\ Truthy(input.service_name_filter) =>
        /\ \A k \in 1..Len(rows) :
               BeginsWith(rows[k].service_name, input.service_name_filter[1])
        /\ input.service_name_filter = Some("Encamp") =>
               rows = SelectSeq(dataset, LAMBDA r : r.service_name = "Encampments")

----------------------------------------------------------------------------
(* Properties of malformed cases *)

\* the cases of the dataset closed before they were requested
ClosedBeforeRequested ==
    {k \in 1..Len(dataset) : dataset[k].closed_date < dataset[k].requested_datetime}

\* C20: analyzeCycleTimes keeps the cases closed before they were requested:
\* every fetched case is counted in total_closed_analyzed, and minimum,
\* maximum, average and median are those of all the durations, the negative
\* ones taken as they are
C20_NegativeDurationsKept ==
    Returned("analyzeCycleTimes") /\ Len(dataset) > 0 =>
        LET ds == [k \in 1..Len(dataset) |->
                      dataset[k].closed_date - dataset[k].requested_datetime]
            n == Len(ds)
        IN  /\ result.total_closed_analyzed = n
            /\ result.min_days_to_close \in ToFixed2(KthSmallest(ds, 1), TicksPerDay)
            /\ result.max_days_to_close \in ToFixed2(KthSmallest(ds, n), TicksPerDay)
            /\ result.avg_days_to_close \in ToFixed2(SumSeq(ds), TicksPerDay * n)
            /\ result.median_days_to_close \in
                 ToFixed2(KthSmallest(ds, (n + 1) \div 2)
                          + KthSmallest(ds, n \div 2 + 1), 2 * TicksPerDay)
            /\ ClosedBeforeRequested # {} => result.min_days_to_close < 0

C20_Witness ==
    /\ Returned("analyzeCycleTimes")
    /\ Len(dataset) = 3
    /\ Cardinality(ClosedBeforeRequested) = 2
    /\ result.total_closed_analyzed = 3
    /\ result.min_days_to_close < 0
    /\ result.median_days_to_close < 0
    /\ result.max_days_to_close > 0

----------------------------------------------------------------------------
(* Properties of the staleness rule *)

\* updatedAt is older than the cutoff of n months before now
OlderThan(r, n) == r.updated_at # Null /\ r.updated_at[1] < Now - n

\* C21 as stated: analyzeAllRepositories and findRepositoriesWithIssues
\* ("stale") report the stale issue for a repository iff its updatedAt is
\* before now - 6 months, and getRepositoryHealth reports "Not recently
\* updated" and subtracts 10 points iff updatedAt is before now - 1 month;
\* an update exactly at the cutoff and a missing timestamp are not older
C21_AsStated ==
    /\ Returned("analyzeAllRepositories") =>
         \A k \in 1..Len(repos) :
             UniqueName(k) /\ (input.includePrivate \/ ~repos[k].private) =>
                 LET got == IssuesReturnedFor(k)
                 IN  (\E j \in 1..Len(got) :
                          got[j] = "Repository hasn't been updated in 6+ months")
                     <=> OlderThan(repos[k], 6)
    /\ Returned("findRepositoriesWithIssues") /\ input.issueType = "stale" =>
         \A k \in 1..Len(repos) :
             UniqueName(k) =>
                 ("Not updated in 6+ months" \in FindingsReturnedFor(k)
                  <=> OlderThan(repos[k], 6))
    /\ Returned("getRepositoryHealth") =>
         /\ IssueReturned("Not recently updated") <=> OlderThan(repos[i], 1)
         /\ result.healthScore =
              100 - (IF repos[i].license = Null THEN LicensePenalty ELSE 0)
                  - (IF repos[i].description = Null
                        \/ Len(repos[i].description[1]) < 10
                     THEN DescriptionPenalty ELSE 0)
                  - (IF ProbeFailed(repos[i]) THEN ReadmePenalty ELSE 0)
                  - (IF OlderThan(repos[i], 1) THEN ActivityPenalty ELSE 0)

----------------------------------------------------------------------------
(* Properties of the single-repository path and the practice heuristic *)

\* the score getRepositoryHealth computes from the license, the length of
\* the description, the README probe and the update time alone
HealthScoreOf(r) ==
    100 - (IF r.license = Null THEN LicensePenalty ELSE 0)
        - (IF r.description = Null \/ Len(r.description[1]) < 10
           THEN DescriptionPenalty ELSE 0)
        - (IF ProbeFailed(r) THEN ReadmePenalty ELSE 0)
        - (IF r.updated_at # Null /\ r.updated_at[1] > Now - 1
           THEN 0 ELSE ActivityPenalty)

\* the same for getRepositoryHealth of the JS handler
HealthScoreOfJS(r) ==
    100 - (IF r.license = Null THEN LicensePenaltyJS ELSE 0)
        - (IF ProbeFailed(r) THEN ReadmePenaltyJS ELSE 0)
        - (IF r.description = Null \/ Len(r.description[1]) < 10
           THEN DescriptionPenaltyJS ELSE 0)
        - (IF r.updated_at = Null \/ r.updated_at[1] < Now - 6
           THEN StalePenaltyJS ELSE 0)

ScoreIgnoresPractice ==
    /\ Returned("getRepositoryHealth") => result.healthScore = HealthScoreOf(repos[i])
    /\ Returned("JS.getRepositoryHealth") =>
         result.healthScore = HealthScoreOfJS(repos[i])

\* C22 as stated: the score of getRepositoryHealth does not depend on the
\* practice heuristic, and a public repository with a keyword in its name
\* or description has the practice issue among the returned issues
C22_AsStated ==
    /\ ScoreIgnoresPractice
    /\ op \in {"getRepositoryHealth", "JS.getRepositoryHealth"}
         /\ pc = "done" /\ result.status = "ok"
         /\ ~repos[i].private /\ MatchesPracticeRule(repos[i])
       => IssueReturned("Practice/demo code should be private")

\* C22: getRepositoryHealth does not apply the practice heuristic at all:
\* its score is determined by license, description length, README probe and
\* update time, whatever the name, the wording of the description and the
\* visibility, and it never returns the practice issue
C22_PracticeNotApplied ==
    /\ ScoreIgnoresPractice
    /\ op \in {"getRepositoryHealth", "JS.getRepositoryHealth"}
         /\ pc = "done" /\ result.status = "ok"
       => ~IssueReturned("Practice/demo code should be private")

C22_Witness ==
    /\ Returned("getRepositoryHealth")
    /\ repos[i].name = "Demo-site"
    /\ repos[i].description = Some("My Tutorial project")
    /\ ~repos[i].private
    /\ result.healthScore = 100
    /\ result.issues = <<>>


----------------------------------------------------------------------------
(* Properties of addLicenseToRepo and addReadmeToRepo *)

\* the existence probe of a call, with its outcome
IsProbeOf(t, q, ok) ==
    /\ q.request = "repos.getContent"
    /\ q.path = FileOf(tasks[t].op)
    /\ q.ok = ok

IsWrite(q) ==
    q.request \in {"repos.createOrUpdateFileContents", "repos.update"}

\* call t found the file it was to add
ProbeSucceeded(t) ==
    \E k \in 1..Len(tasks[t].sent) : IsProbeOf(t, tasks[t].sent[k], TRUE)

SentWrite(t) == \E k \in 1..Len(tasks[t].sent) : IsWrite(tasks[t].sent[k])

ReportsSuccess(r) ==
    /\ r.status = "ok"
    /\ BeginsWith(r.message, "Successfully added")
    /\ "success" \in DOMAIN r => r.success

ReportsAlreadyExists(r) ==
    /\ r.status = "ok"
    /\ Includes(r.message, "already exists")
    /\ "success" \in DOMAIN r => ~r.success

\* a call whose probe succeeded has sent no write request and, being done
\* with the probe, reports that the file already exists; a create request
\* directly follows a failed probe of the same call
C23_ProbeGuardsCreate ==
    \A t \in DOMAIN tasks :
        /\ ProbeSucceeded(t) =>
             /\ ~SentWrite(t)
             /\ tasks[t].pc = "done"
             /\ ReportsAlreadyExists(tasks[t].result)
        /\ \A k \in 1..Len(tasks[t].sent) :
             IsWrite(tasks[t].sent[k]) =>
               /\ tasks[t].sent[k].request = "repos.createOrUpdateFileContents"
               /\ tasks[t].sent[k].path = FileOf(tasks[t].op)
               /\ k > 1
               /\ IsProbeOf(t, tasks[t].sent[k - 1], FALSE)

\* the step in which a call finds the file leaves the repository as it is
C23_FoundLeavesRepository ==
    \A t \in DOMAIN tasks :
        (tasks[t].pc = "probe" /\ tasks'[t].pc = "done") => repos' = repos

\* C23: addLicenseToRepo and addReadmeToRepo never overwrite an existing
\* file: when the existence probe succeeds the call sends no create or
\* update request, leaves the repository unchanged and reports failure with
\* an "already exists" message; a create request is sent only after a failed
\* probe.
C23_NeverOverwrites ==
    /\ []C23_ProbeGuardsCreate
    /\ [][C23_FoundLeavesRepository]_vars

\* one call has added LICENSE after its probe failed, a later call for the
\* same file found it and was refused
C23_Witness ==
    \E t \in DOMAIN tasks, u \in DOMAIN tasks :
        /\ FileOf(tasks[t].op) = FileOf(tasks[u].op)
        /\ SentWrite(t) /\ ReportsSuccess(tasks[t].result)
        /\ ProbeSucceeded(u) /\ ReportsAlreadyExists(tasks[u].result)


\* the calls of addLicenseToRepo, of either implementation
LicenseCalls ==
    {t \in DOMAIN tasks : tasks[t].op \in {"addLicenseToRepo", "JS.addLicenseToRepo"}}

\* the repository had no LICENSE file when the calls began: the license
\* attribute is not touched by the calls, and the file is there from the
\* beginning exactly if the attribute is set
InitiallyWithoutLicense == repos[1].license = Null

SentCreate(t) ==
    \E k \in 1..Len(tasks[t].sent) :
        tasks[t].sent[k].request = "repos.createOrUpdateFileContents"

ReportsError(r) == r.status \in {"error", "errorText"}

----------------------------------------------------------------------------
(* Properties of the adjacency scan of analyzeResubmissions *)

\* rows[k] was requested within the window after rows[j] of the same address
\* and subtype was closed
ReopensCase(j, k) ==
    /\ rows[j].address = rows[k].address
    /\ rows[j].service_subtype = rows[k].service_subtype
    /\ rows[j].closed_date # Null
    /\ rows[k].requested_datetime >= rows[j].closed_date[1]
    /\ rows[k].requested_datetime - rows[j].closed_date[1] <= 7 * TicksPerDay

\* the pairs of rows that are not neighbours in the order of the query
DistantPairs ==
    {p \in (1..Len(rows)) \X (1..Len(rows)) : p[1] + 1 < p[2]}

\* C24: analyzeResubmissions compares each record only with its immediate
\* predecessor in the (address, subtype, requested time) order: the count is
\* the number of neighbouring pairs that qualify, whatever holds of pairs
\* that are not neighbours, every example is a pair of neighbours, and
\* potential_resubmissions <= max(0, total_cases_scanned - 1).
C24_OnlyNeighboursCompared ==
    Returned("analyzeResubmissions") =>
        /\ result.potential_resubmissions =
             Cardinality({k \in 2..Len(rows) : ReopensCase(k - 1, k)})
        /\ \A p \in DistantPairs :
             (ReopensCase(p[1], p[2]) /\ ~ReopensCase(p[2] - 1, p[2])) =>
               \A e \in 1..Len(result.examples) :
                 result.examples[e].resubmitted_case # rows[p[2]].service_request_id
        /\ \A e \in 1..Len(result.examples) :
             result.examples[e].resubmitted_case = result.examples[e].original_case + 1
        /\ result.potential_resubmissions <= Max(0, result.total_cases_scanned - 1)

\* a record requested within 7 days after an earlier one of its address and
\* subtype closed, with a record in between, and nothing counted
C24_Witness ==
    /\ Returned("analyzeResubmissions")
    /\ \E p \in DistantPairs : ReopensCase(p[1], p[2])
    /\ result.potential_resubmissions = 0
    /\ result.total_cases_scanned = 3


----------------------------------------------------------------------------
(* Properties of autoFixAllIssues *)

\* the write requests sent so far
WritesSent == {k \in 1..Len(calls) : IsWrite(calls[k])}

\* C25 as stated: autoFixAllIssues, in the TypeScript and in the JS
\* implementation, sends write requests (add LICENSE, add README, make
\* private) only for repositories whose owner is the authenticated user.
C25_AsStated ==
    op \in AutoFixOps =>
        \A k \in WritesSent : repos[calls[k].repo].owner = AuthenticatedUser


\* analyzeAllRepositories has returned after a run of autoFixAllIssues that
\* completed without error
AnalyzedAfterAutoFix ==
    /\ Returned("analyzeAllRepositories")
    /\ lastResult.status = "ok"
    /\ "totalFixed" \in DOMAIN lastResult

\* an issue analyzeAllRepositories returned for a repository named as repos[k]
ReportedFor(k, text) ==
    \E e \in 1..Len(result.issues) :
        /\ result.issues[e].repo = repos[k].name
        /\ result.issues[e].issue = text

\* C26 as stated: after autoFixAllIssues has completed without error,
\* analyzeAllRepositories over the repositories as they are then reports
\* neither "Missing README.md" nor "Practice/demo code should be private"
\* for any repository autoFixAllIssues processed.
C26_AsStated ==
    AnalyzedAfterAutoFix =>
        \A k \in 1..Len(repos) :
            /\ ~ReportedFor(k, "Missing README.md")
            /\ ~ReportedFor(k, "Practice/demo code should be private")


\* autoFixAllIssues runs, or has run, for the second time, after a first
\* run that completed without error
SecondAutoFixRun == op \in AutoFixOps /\ lastResult.status = "ok"

\* what the returned value says was fixed: `fixed` of the TypeScript method,
\* the lines of the text of the JS handler
FixedReported(r) == IF "fixed" \in DOMAIN r THEN r.fixed ELSE r.results

----------------------------------------------------------------------------
(* Properties of the counts of analyzeAllRepositories *)

\* the listed repositories analyzeAllRepositories does not skip
Examined == {k \in 1..Len(repos) : input.includePrivate \/ ~repos[k].private}

\* no issue and no README probe for a skipped repository
SkippedUntouched ==
    \A k \in (1..Len(repos)) \ Examined :
        /\ (\A j \in Examined : repos[j].name # repos[k].name) =>
             \A e \in 1..Len(result.issues) : result.issues[e].repo # repos[k].name
        /\ \A c \in 1..Len(calls) : calls[c].repo # k

\* C28 as stated: analyzeAllRepositories reports `analyzed` equal to the
\* number of repositories it examined; with includePrivate false every
\* private repository is skipped, contributes no issue and is not counted.
C28_AsStated ==
    Returned("analyzeAllRepositories") =>
        /\ SkippedUntouched
        /\ result.analyzed = Cardinality(Examined)


----------------------------------------------------------------------------
(* Properties of the order of the cycle-time statistics *)

\* C30 as stated: whenever analyzeCycleTimes returns total_closed_analyzed > 0
\* the statistics are ordered, min <= median <= max and min <= avg <= max,
\* negative durations included.
C30_AsStated ==
    (Returned("analyzeCycleTimes") /\ result.total_closed_analyzed > 0) =>
        /\ result.min_days_to_close <= result.median_days_to_close
        /\ result.median_days_to_close <= result.max_days_to_close
        /\ result.min_days_to_close <= result.avg_days_to_close
        /\ result.avg_days_to_close <= result.max_days_to_close

====
